---- MODULE Spec2Model ----
(***************************************************************************)
(* Synchronisation cache and reminder scheduler of the assistant bot       *)
(* (services/scheduler.js).                                                *)
(*                                                                         *)
(* Time is counted in units of 30 seconds, so that the reminder window of  *)
(* 14 .. 15.5 minutes is the integer interval 28 .. 31.  An async function *)
(* is modelled as one action per stretch of code between two awaits: the   *)
(* JavaScript run-to-completion rule makes each stretch atomic, and other  *)
(* callbacks may run between two stretches.                                *)
(***************************************************************************)
EXTENDS Integers, Sequences, FiniteSets, TLC

VARIABLES
    now,            \* wall clock (DateTime.now()), in units of 30 s
    phase,          \* "constructed" (module loaded) or "running" (initScheduler done)
    memoryCache,    \* scheduler.js: let memoryCache = {events, tasks, trelloCards, lastUpdate}
    disk,           \* CACHE_FILE (scheduler_cache.json)
    calls,          \* the invocations of refreshDataCache / invalidateCache, by slot
    notifiedEvents, \* scheduler.js: const notifiedEvents = new Set()
    sent,           \* bot.telegram.sendMessage calls issued by the minute scan
    scanAt,         \* time of the latest firing of the minute scan
    conflictCheck,  \* smartScheduling.js: the invocation of checkConflicts
    session,        \* index.js: ctx.session of the chat (pendingEvent, conflictSuggestions)
    handlers,       \* index.js: the booking handlers in flight, by slot
    created,        \* googleService.createEvent calls issued, in order
    fired,          \* scheduler.js: the instant of the latest firing of each cron task
    digest,         \* scheduler.js: the digest callbacks, by task
    delivered,      \* bot.telegram.sendMessage calls issued by the digests, by recipient
    retry,          \* retry.js: the invocation of withRetry
    limiter,        \* rateLimiter.js: this.users, and the answers check has given
    batch           \* batchProcessor.js: the invocation of batchProcess

bookingVars == <<session, handlers, created>>
cronVars == <<fired, digest, delivered>>
utilVars == <<retry, limiter, batch>>

vars == <<now, phase, memoryCache, disk, calls, notifiedEvents, sent, scanAt, conflictCheck,
          session, handlers, created, fired, digest, delivered, retry, limiter, batch>>

----------------------------------------------------------------------------
(* Bounds of the model *)

T0 == 300            \* clock value when the process starts
MaxTicks == 2        \* the clock runs from T0 to T0 + MaxTicks
MaxSends == 2        \* sendMessage calls recorded per recipient and event (saturating)

(* Program constants *)

NULL == -1           \* lastUpdate: null
WindowMin == 28      \* diffMinutes >= 14
WindowMax == 31      \* diffMinutes <= 15.5
StaleAfter == 240    \* diff > 2 (hours)

CallIds == {1, 2}            \* slots for the invocations of refresh / invalidate in flight
ChatIds == {"u1", "u2"}      \* ALLOWED_CHAT_IDS
EventIds == {"e1", "e2"}

----------------------------------------------------------------------------
(* Data returned by the external read collaborators *)

\* A calendar event: start.dateTime for a timed event, NULL for an all-day
\* event (which carries start.date instead).
Timed(id, t) == [id |-> id, dateTime |-> t]
AllDay(id) == [id |-> id, dateTime |-> NULL]

\* The results listEvents may give while the model runs.
EventLists ==
    { <<>>,
      <<Timed("e1", T0 + 29)>>,
      <<Timed("e1", T0 + 32)>>,
      <<Timed("e1", T0 + 29), Timed("e2", T0 + 32)>>,
      <<AllDay("e2"), Timed("e1", T0 + 32)>> }

\* The subset used where the events only need to be told apart.
FewEventLists == { <<>>, <<Timed("e1", T0 + 29)>> }

TaskLists == { <<>>, <<"t1">> }
CardLists == { <<>>, <<"k1">> }

\* The settlement of an awaited fetch: resolved with a value, or rejected.
Resolved(v) == [ok |-> TRUE, value |-> v]
Rejected == [ok |-> FALSE, value |-> <<>>]
Outcomes(values) == { Resolved(v) : v \in values } \cup { Rejected }

----------------------------------------------------------------------------
(* Snapshot store *)

EmptyCache == [events |-> <<>>, tasks |-> <<>>, trelloCards |-> <<>>, lastUpdate |-> NULL]

NoFile == [state |-> "missing", doc |-> EmptyCache]
File(doc) == [state |-> "valid", doc |-> doc]

\* A file that holds no complete JSON document: empty, or the head of one.
Truncated == [state |-> "truncated", doc |-> EmptyCache]

\* How far fs.writeFileSync gets.  It opens CACHE_FILE with the flag 'w',
\* which empties the file, and then writes the text: "complete" when both are
\* done, "refused" when the open throws (the file is untouched), "torn" when
\* the file was opened and the text was not written to its end.
WriteOutcomes == {"complete", "refused", "torn"}

\* fs.writeFileSync(CACHE_FILE, JSON.stringify(memoryCache)) inside try/catch:
\* the document is written in place; an error thrown by the write is only
\* logged.
saveCacheToDisk(cache, file, written) ==
    CASE written = "complete" -> File(cache)
      [] written = "refused" -> file
      [] written = "torn" -> Truncated

\* One invocation of refreshDataCache or invalidateCache.  pc is the fetch
\* it is awaiting (or the one whose rejection ended it); now, events and
\* tasks are its local variables.
IdleCall ==
    [kind |-> "none", type |-> "none", status |-> "idle", pc |-> "none",
     now |-> NULL, events |-> <<>>, tasks |-> <<>>]

\* A catch block that throws the error on to the caller.
Rethrown(call, status) ==
    [IdleCall EXCEPT !.kind = call.kind, !.type = call.type,
                     !.status = IF status = "failed" THEN "rejected" ELSE status,
                     !.pc = IF status = "failed" THEN call.pc ELSE "none"]

Settled(call, status) ==
    [IdleCall EXCEPT !.kind = call.kind, !.type = call.type, !.status = status,
                     !.pc = IF status = "failed" THEN call.pc ELSE "none"]

Free(c) == calls[c].status # "pending"

\* What checkConflicts returns when it reports nothing.
NoConflict == [hasConflict |-> FALSE, conflicts |-> <<>>, suggestions |-> <<>>]

\* An ISO 8601 text: a date with a time of day ("2024-01-15T14:00:00"), a
\* date alone ("2024-01-15", time NULL), or no text at all (date NULL).
ISO(date, time) == [date |-> date, time |-> time]
NoText == ISO(NULL, NULL)

\* No invocation of checkConflicts yet.  fetches counts the listEvents calls
\* the invocation has issued, settled is what its listEvents call gave.
NoCheck ==
    [status |-> "idle", eventData |-> [start |-> NoText, end |-> NoText],
     fetches |-> 0, settled |-> Rejected, result |-> NoConflict]

\* A booking as the handlers pass it on (intent): its start and end texts.
NoIntent == [start |-> NoText, end |-> NoText]

\* ctx.session of the chat.  pending tells whether pendingEvent is set.
NoSession == [pending |-> FALSE, pendingEvent |-> NoIntent, conflictSuggestions |-> <<>>]

\* What validateSchedulingContext returns for a booking nothing is wrong with.
Valid == [isValid |-> TRUE, warnings |-> <<>>]

\* One invocation of a booking handler: processIntent with a create_event
\* intent ("intent"), or the callback of a button of the conflict message
\* ("force", "accept", "cancel").  pc is the await it is at, or how it ended;
\* intent, index, contextValidation and entry are its local variables, entry
\* being the place of its createEvent call in the list of calls.
HandlerIds == {1, 2}
IdleHandler ==
    [kind |-> "none", pc |-> "idle", intent |-> NoIntent, index |-> 0,
     contextValidation |-> Valid, entry |-> 0]

\* The cron tasks of the scheduler the model follows.
Tasks == {"hourly", "morning", "afternoon"}

DigestTasks == {"morning", "afternoon"}

\* A digest callback: the await it is at or how it ended, and the slot of the
\* refreshDataCache invocation it awaits.
IdleDigest == [pc |-> "idle", call |-> 0]

\* No invocation of withRetry yet.  attempt counts the calls of fn, pc is
\* "fn" while a call of fn is awaited, "sleep" during the delay before the
\* next one, "returned" or "thrown" at the end; errors are the errors the
\* calls of fn threw, delay is the local variable (ms).
Error(code, status, message) == [code |-> code, status |-> status, message |-> message]
NoError == Error("none", 0, "none")
IdleRetry ==
    [pc |-> "idle", attempt |-> 0, delay |-> 0, errors |-> <<>>, result |-> <<>>,
     thrown |-> NoError]

\* The users of the rate limiter.
UserIds == {"u1", "u2"}

\* new RateLimiter(): no user is known.  known tells whether this.users has
\* the key; answers is the list of the answers of check, in order.
NoUser == [known |-> FALSE, requests |-> <<>>, blockedUntil |-> 0]
NewLimiter == [users |-> [u \in UserIds |-> NoUser], answers |-> <<>>]

\* No invocation of batchProcess yet.  i is the loop variable and results
\* the local list; started lists the values of i for which a batch was
\* started, flight is the set of items whose invocation of fn has not
\* settled, failed the set of those whose invocation rejected, held the
\* results Promise.all has got so far, peak the largest number of invocations
\* that were in flight together.
IdleBatch ==
    [pc |-> "idle", items |-> <<>>, i |-> 0, results |-> <<>>, started |-> <<>>,
     flight |-> {}, failed |-> {}, held |-> {}, peak |-> 0]

\* A new invocation takes the lowest free slot (the slots are interchangeable).
FirstFree(c) == Free(c) /\ \A d \in CallIds : Free(d) => c <= d

----------------------------------------------------------------------------
Init ==
    /\ now = T0
    /\ phase = "constructed"
    /\ memoryCache = EmptyCache
    \* no file, or a file written two hours less 30 s before the start
    /\ disk \in { NoFile,
                  File([events |-> <<Timed("e1", T0 + 29)>>, tasks |-> <<"t1">>,
                        trelloCards |-> <<>>, lastUpdate |-> T0 - StaleAfter + 1]) }
    /\ calls = [c \in CallIds |-> IdleCall]
    /\ notifiedEvents = {}
    /\ sent = [p \in ChatIds \X EventIds |-> <<>>]
    /\ scanAt = NULL
    /\ conflictCheck = NoCheck
    /\ session = NoSession
    /\ handlers = [h \in HandlerIds |-> IdleHandler]
    /\ created = <<>>
    /\ fired = [task \in Tasks |-> NULL]
    /\ digest = [task \in DigestTasks |-> IdleDigest]
    /\ delivered = [id \in ChatIds |-> <<>>]
    /\ retry = IdleRetry
    /\ limiter = NewLimiter
    /\ batch = IdleBatch

\* The clock advances.
Tick ==
    /\ now < T0 + MaxTicks
    /\ now' = now + 1
    /\ UNCHANGED <<phase, memoryCache, disk, calls, notifiedEvents, sent, scanAt, conflictCheck,
                 bookingVars, cronVars, utilVars>>

----------------------------------------------------------------------------
(* refreshDataCache: full refresh *)

\* The invocation as it is when the function has been entered: now is read,
\* listEvents is issued and awaited.
RefreshEntered(t) ==
    [IdleCall EXCEPT !.kind = "refresh", !.status = "pending", !.pc = "events", !.now = t]

\* A refresh that assigns each result to the cache as soon as it arrives, the
\* way invalidateCache does.
refreshDataCacheEager(cache, call, r) ==
    IF ~r.ok
    THEN [cache |-> cache, call |-> Settled(call, "failed"), save |-> FALSE]
    ELSE CASE call.pc = "events" ->
                [cache |-> [cache EXCEPT !.events = r.value],
                 call |-> [call EXCEPT !.events = r.value, !.pc = "tasks"],
                 save |-> FALSE]
           [] call.pc = "tasks" ->
                [cache |-> [cache EXCEPT !.tasks = r.value],
                 call |-> [call EXCEPT !.tasks = r.value, !.pc = "trello"],
                 save |-> FALSE]
           [] call.pc = "trello" ->
                [cache |-> [events |-> call.events, tasks |-> call.tasks,
                            trelloCards |-> r.value, lastUpdate |-> call.now],
                 call |-> Settled(call, "done"),
                 save |-> TRUE]

\* A refresh whose last stretch leaves the tasks out of the assignment.
refreshDataCacheKeepsTasks(cache, call, r) ==
    IF ~r.ok
    THEN [cache |-> cache, call |-> Settled(call, "failed"), save |-> FALSE]
    ELSE CASE call.pc = "events" ->
                [cache |-> cache,
                 call |-> [call EXCEPT !.events = r.value, !.pc = "tasks"],
                 save |-> FALSE]
           [] call.pc = "tasks" ->
                [cache |-> cache,
                 call |-> [call EXCEPT !.tasks = r.value, !.pc = "trello"],
                 save |-> FALSE]
           [] call.pc = "trello" ->
                [cache |-> [events |-> call.events, tasks |-> cache.tasks,
                            trelloCards |-> r.value, lastUpdate |-> call.now],
                 call |-> Settled(call, "done"),
                 save |-> TRUE]

\* The body of refreshDataCache from the await at call.pc, which settled with
\* r, to the next await or to the end.  The three results are held in locals
\* and the cache is assigned only after the third await; a rejection goes to
\* the catch block, which logs.  save tells whether saveCacheToDisk is reached.
refreshDataCache(cache, call, r) ==
    IF ~r.ok
    THEN [cache |-> cache, call |-> Settled(call, "failed"), save |-> FALSE]
    ELSE CASE call.pc = "events" ->
                [cache |-> cache,
                 call |-> [call EXCEPT !.events = r.value, !.pc = "tasks"],
                 save |-> FALSE]
           [] call.pc = "tasks" ->
                [cache |-> cache,
                 call |-> [call EXCEPT !.tasks = r.value, !.pc = "trello"],
                 save |-> FALSE]
           [] call.pc = "trello" ->
                [cache |-> [events |-> call.events, tasks |-> call.tasks,
                            trelloCards |-> r.value, lastUpdate |-> call.now],
                 call |-> Settled(call, "done"),
                 save |-> TRUE]

----------------------------------------------------------------------------
(* invalidateCache(type): targeted refresh *)

\* The arguments the callers in index.js pass.
CallerTypes == {"all", "events", "tasks", "trello"}

\* The arguments of the exported function: any string; "boardCards" stands
\* for one that none of its tests recognises.
InvalidateTypes == CallerTypes \cup {"boardCards"}

Stages == <<"events", "tasks", "trello">>

StageIndex(pc) ==
    CASE pc = "start" -> 0
      [] pc = "events" -> 1
      [] pc = "tasks" -> 2
      [] pc = "trello" -> 3

\* Tests that hold whatever the type (type === 'all' || '<stage>'): every
\* block runs.
NextFetchAnyType(type, after) ==
    IF StageIndex(after) < 3 THEN Stages[StageIndex(after) + 1] ELSE "end"

\* The next fetch invalidateCache(type) awaits after the stage `after`: the
\* first of the three guarded blocks below it whose test
\* (type === 'all' || type === <stage>) holds, "end" when there is none.
NextFetch(type, after) ==
    LET later == { i \in 1 .. 3 : i > StageIndex(after) /\ (type = "all" \/ type = Stages[i]) }
    IN  IF later = {} THEN "end"
        ELSE Stages[CHOOSE i \in later : \A j \in later : i <= j]

\* memoryCache.<field> = await <fetch>
Patched(cache, pc, value) ==
    CASE pc = "events" -> [cache EXCEPT !.events = value]
      [] pc = "tasks" -> [cache EXCEPT !.tasks = value]
      [] pc = "trello" -> [cache EXCEPT !.trelloCards = value]

\* An invalidation with one try/catch per block: after a rejection it goes
\* on with the next block.
invalidateCacheContinue(cache, call, r) ==
    LET patched == IF call.pc = "start" \/ ~r.ok THEN cache
                   ELSE Patched(cache, call.pc, r.value)
        next == NextFetch(call.type, call.pc)
    IN  IF next # "end"
        THEN [cache |-> patched, call |-> [call EXCEPT !.pc = next], save |-> FALSE]
        ELSE [cache |-> [patched EXCEPT !.lastUpdate = call.now],
              call |-> Settled(call, "done"),
              save |-> TRUE]

\* The body of invalidateCache from the position call.pc ("start", or the
\* await that settled with r) to the next await or to the end.  Each result
\* is assigned to the cache as soon as its await resolves; lastUpdate and
\* saveCacheToDisk come after the last block; a rejection goes to the catch
\* block, which logs.
invalidateCache(cache, call, r) ==
    IF ~r.ok
    THEN [cache |-> cache, call |-> Settled(call, "failed"), save |-> FALSE]
    ELSE LET patched == IF call.pc = "start" THEN cache
                        ELSE Patched(cache, call.pc, r.value)
             next == NextFetch(call.type, call.pc)
         IN  IF next # "end"
             THEN [cache |-> patched, call |-> [call EXCEPT !.pc = next], save |-> FALSE]
             ELSE [cache |-> [patched EXCEPT !.lastUpdate = call.now],
                   call |-> Settled(call, "done"),
                   save |-> TRUE]

InvalidateEntered(type, t) ==
    [IdleCall EXCEPT !.kind = "invalidate", !.type = type, !.status = "pending",
                     !.pc = "start", !.now = t]

----------------------------------------------------------------------------
(* Actions of the cache *)

\* The effect of one stretch of a call on the cache, the file and the slot.
Apply(c, step, written) ==
    /\ memoryCache' = step.cache
    /\ disk' = IF step.save THEN saveCacheToDisk(step.cache, disk, written) ELSE disk
    /\ calls' = [calls EXCEPT ![c] = step.call]
    /\ UNCHANGED <<now, phase, notifiedEvents, sent, scanAt, conflictCheck, bookingVars, cronVars, utilVars>>

Awaiting(c, kind, pc) ==
    /\ phase = "running"
    /\ calls[c].kind = kind
    /\ calls[c].status = "pending"
    /\ calls[c].pc = pc

\* refreshDataCache() is called (hourly cron, digest crons).
RefreshCall(c) ==
    /\ phase = "running"
    /\ FirstFree(c)
    /\ calls' = [calls EXCEPT ![c] = RefreshEntered(now)]
    /\ UNCHANGED <<now, phase, memoryCache, disk, notifiedEvents, sent, scanAt, conflictCheck,
                 bookingVars, cronVars, utilVars>>

\* await googleService.listEvents(...) settles.
RefreshEvents(c, r) ==
    /\ Awaiting(c, "refresh", "events")
    /\ Apply(c, refreshDataCache(memoryCache, calls[c], r), "complete")

\* await googleService.listTasks() settles.
RefreshTasks(c, r) ==
    /\ Awaiting(c, "refresh", "tasks")
    /\ Apply(c, refreshDataCache(memoryCache, calls[c], r), "complete")

\* await trelloService.listAllCards() settles; the cache is assigned and saved.
RefreshCards(c, r, written) ==
    /\ Awaiting(c, "refresh", "trello")
    /\ Apply(c, refreshDataCache(memoryCache, calls[c], r), written)

\* invalidateCache(type) is called (bot handlers): it runs to its first await,
\* or to its end when the type selects no fetch.
InvalidateCall(c, type, written) ==
    /\ phase = "running"
    /\ FirstFree(c)
    /\ Apply(c, invalidateCache(memoryCache, InvalidateEntered(type, now), Resolved(<<>>)), written)

\* The fetch an invalidateCache call awaits settles.
InvalidateEvents(c, r, written) ==
    /\ Awaiting(c, "invalidate", "events")
    /\ Apply(c, invalidateCache(memoryCache, calls[c], r), written)

InvalidateTasks(c, r, written) ==
    /\ Awaiting(c, "invalidate", "tasks")
    /\ Apply(c, invalidateCache(memoryCache, calls[c], r), written)

InvalidateCards(c, r, written) ==
    /\ Awaiting(c, "invalidate", "trello")
    /\ Apply(c, invalidateCache(memoryCache, calls[c], r), written)

----------------------------------------------------------------------------
(* initScheduler: load, first refresh *)

\* A staleness test with >= in place of >.
loadCacheFromDiskInclusive(cache, file, t) ==
    IF file.state = "valid"
    THEN [cache |-> file.doc, refresh |-> t - file.doc.lastUpdate >= StaleAfter]
    ELSE [cache |-> cache, refresh |-> FALSE]

\* The properties among events, tasks and trelloCards that the parsed
\* document does not have: a document that lacks some carries their names in
\* a field lacks (and holds <<>> in their place); lastUpdate is NULL when the
\* document has none.
Lacks(doc) == IF "lacks" \in DOMAIN doc THEN doc.lacks ELSE {}

\* if (!memoryCache.trelloCards) memoryCache.trelloCards = []
Defaulted(doc) ==
    IF Lacks(doc) \subseteq {"trelloCards"}
    THEN [events |-> doc.events, tasks |-> doc.tasks, trelloCards |-> doc.trelloCards,
          lastUpdate |-> doc.lastUpdate]
    ELSE [doc EXCEPT !.lacks = @ \ {"trelloCards"}]

\* loadCacheFromDisk: the parsed document replaces the cache and gets an
\* empty trelloCards if it has none; refresh tells whether refreshDataCache()
\* is called because the document is older than 2 hours.  Reading the length
\* of events or tasks for the log throws when the document lacks them; the
\* catch logs, and the age is not looked at.  A document without lastUpdate
\* has no age that is greater than 2 hours.
loadCacheFromDisk(cache, file, t) ==
    IF file.state = "valid"
    THEN [cache |-> Defaulted(file.doc),
          refresh |-> /\ Lacks(file.doc) \cap {"events", "tasks"} = {}
                      /\ file.doc.lastUpdate # NULL
                      /\ t - file.doc.lastUpdate > StaleAfter]
    ELSE [cache |-> cache, refresh |-> FALSE]

\* An initScheduler whose load has no try/catch: an error of the read or of
\* JSON.parse leaves initScheduler before the first refresh and the crons.
InitSchedulerUnguarded ==
    /\ phase = "constructed"
    /\ LET loaded == loadCacheFromDisk(memoryCache, disk, now)
           thrown == disk.state = "truncated"
           empty == Len(loaded.cache.events) = 0 /\ Len(loaded.cache.tasks) = 0
           started == IF thrown THEN 0
                      ELSE (IF loaded.refresh THEN 1 ELSE 0) + (IF empty THEN 1 ELSE 0)
       IN  /\ memoryCache' = loaded.cache
           /\ calls' = [c \in CallIds |-> IF c <= started THEN RefreshEntered(now) ELSE calls[c]]
           /\ phase' = IF thrown THEN "stopped" ELSE "running"
    /\ UNCHANGED <<now, disk, notifiedEvents, sent, scanAt, conflictCheck, bookingVars, cronVars, utilVars>>

\* initScheduler(bot): loadCacheFromDisk(), then refreshDataCache() when the
\* cache has neither events nor tasks.  Neither call is awaited.  Reading
\* the length of events, or of tasks when events is empty, throws when the
\* loaded document lacks it: the error leaves initScheduler, which index.js
\* calls at the top level of the module.
InitScheduler ==
    /\ phase = "constructed"
    /\ LET loaded == loadCacheFromDisk(memoryCache, disk, now)
           thrown == \/ "events" \in Lacks(loaded.cache)
                     \/ Len(loaded.cache.events) = 0 /\ "tasks" \in Lacks(loaded.cache)
           empty == Len(loaded.cache.events) = 0 /\ Len(loaded.cache.tasks) = 0
           started == IF thrown THEN 0
                      ELSE (IF loaded.refresh THEN 1 ELSE 0) + (IF empty THEN 1 ELSE 0)
       IN  /\ memoryCache' = loaded.cache
           /\ calls' = [c \in CallIds |-> IF c <= started THEN RefreshEntered(now) ELSE calls[c]]
           /\ phase' = IF thrown THEN "stopped" ELSE "running"
    /\ UNCHANGED <<now, disk, notifiedEvents, sent, scanAt, conflictCheck, bookingVars, cronVars, utilVars>>

----------------------------------------------------------------------------
(* The end of the process and its restart *)

\* The process is ended from outside (kill, crash, power loss) while the
\* refresh in slot c, whose listAllCards resolved with r, is in the
\* fs.writeFileSync of saveCacheToDisk; written tells how far the write got.
KilledInSave(c, r, written) ==
    /\ Awaiting(c, "refresh", "trello")
    /\ r.ok
    /\ LET step == refreshDataCache(memoryCache, calls[c], r)
       IN  /\ memoryCache' = step.cache
           /\ disk' = saveCacheToDisk(step.cache, disk, written)
           /\ calls' = [calls EXCEPT ![c] = step.call]
    /\ phase' = "stopped"
    /\ UNCHANGED <<now, notifiedEvents, sent, scanAt, conflictCheck, bookingVars, cronVars, utilVars>>

\* The process is started again: the module state is as constructed, the
\* file is as the ended process left it.
Restart ==
    /\ phase = "stopped"
    /\ phase' = "constructed"
    /\ memoryCache' = EmptyCache
    /\ calls' = [c \in CallIds |-> IdleCall]
    /\ notifiedEvents' = {}
    /\ scanAt' = NULL
    /\ conflictCheck' = NoCheck
    /\ handlers' = [h \in HandlerIds |-> IdleHandler]
    /\ fired' = [task \in Tasks |-> NULL]
    /\ digest' = [task \in DigestTasks |-> IdleDigest]
    /\ retry' = IdleRetry
    /\ limiter' = NewLimiter
    /\ batch' = IdleBatch
    /\ UNCHANGED <<now, disk, sent, session, created, delivered>>

----------------------------------------------------------------------------
(* trelloService.listAllCards *)

\* The lists of the board with the ids of their cards (getLists, listCards).
Board ==
    << [id |-> "l1", name |-> "A Fazer", cards |-> <<"k1">>],
       [id |-> "l2", name |-> "Em andamento", cards |-> <<"k2">>] >>

ListIds == { Board[i].id : i \in DOMAIN Board }

\* cards.map(c => ({ ...c, listName: list.name })), or [] from the catch
\* block when listCards(list.id) is rejected.
CardsOf(list, failing) ==
    IF list.id \in failing THEN <<>>
    ELSE [k \in DOMAIN list.cards |-> [id |-> list.cards[k], listName |-> list.name]]

\* results.forEach(cards => allCards = allCards.concat(cards)) from the i-th list on.
RECURSIVE ConcatFrom(_, _, _)
ConcatFrom(lists, i, failing) ==
    IF i > Len(lists) THEN <<>>
    ELSE CardsOf(lists[i], failing) \o ConcatFrom(lists, i + 1, failing)

\* listAllCards(): rejected when getLists is; otherwise resolved with the
\* cards of the lists whose listCards call resolved.  failing is the set of
\* the lists whose listCards call is rejected.
listAllCards(lists, failing) ==
    IF ~lists.ok THEN Rejected
    ELSE Resolved(ConcatFrom(lists.value, 1, failing))

----------------------------------------------------------------------------
(* The minute scan: cron.schedule('* * * * *', ...) *)

\* A window that leaves its upper bound out.
InWindowExclusive(diff) == diff >= WindowMin /\ diff < WindowMax

\* A window of the single instant 14 minutes before the start.
InWindowInstant(diff) == diff = WindowMin

\* diffMinutes >= 14 && diffMinutes <= 15.5, in units of 30 s
InWindow(diff) == diff >= WindowMin /\ diff <= WindowMax

\* A test that forgets the set of the events already notified.
DueNoDedupe(event, t, notified) == InWindow(event.dateTime - t)

\* if (diffMinutes >= 14 && diffMinutes <= 15.5 && !notifiedEvents.has(event.id))
Due(event, t, notified) ==
    InWindow(event.dateTime - t) /\ event.id \notin notified

\* A record of the latest notified event only.
NotifyLatestOnly(notified, event) == {event.id}

\* notifiedEvents.add(event.id)
Notify(notified, event) == notified \cup {event.id}

\* One more sendMessage call in the record of a recipient and event.
Recorded(log, entry) == IF Len(log) < MaxSends THEN Append(log, entry) ELSE log

\* A fan-out that a rejected send cuts short: the recipients whose send is not
\* rejected are left out.
SendReminderUntilFailure(out, event, t, failing) ==
    [p \in DOMAIN out |->
        IF p[2] = event.id
           /\ (p \in failing \/ \A c \in ChatIds : <<c, event.id>> \notin failing)
        THEN Recorded(out[p], [at |-> t, dateTime |-> event.dateTime,
                               delivered |-> p \notin failing])
        ELSE out[p]]

\* chatIds.forEach(id => bot.telegram.sendMessage(id, msg, ...).catch(e => { })):
\* one call per recipient; a rejected send is swallowed by its own catch.
SendReminder(out, event, t, failing) ==
    [p \in DOMAIN out |->
        IF p[2] = event.id
        THEN Recorded(out[p], [at |-> t, dateTime |-> event.dateTime,
                               delivered |-> p \notin failing])
        ELSE out[p]]

\* for (const event of memoryCache.events) { ... } from the i-th event on.
RECURSIVE ScanFrom(_, _, _, _, _, _)
ScanFrom(events, i, t, notified, out, failing) ==
    IF i > Len(events)
    THEN [notifiedEvents |-> notified, sent |-> out]
    ELSE LET event == events[i]
         IN  IF event.dateTime = NULL
             THEN ScanFrom(events, i + 1, t, notified, out, failing)
             ELSE IF Due(event, t, notified)
                  THEN ScanFrom(events, i + 1, t, Notify(notified, event),
                                SendReminder(out, event, t, failing), failing)
                  ELSE ScanFrom(events, i + 1, t, notified, out, failing)

\* One firing of the scan.  The callback has no await: it runs to completion.
\* failing is the set of sends that will be rejected.
Scan(failing) ==
    /\ phase = "running"
    /\ scanAt < now
    /\ LET done == ScanFrom(memoryCache.events, 1, now, notifiedEvents, sent, failing)
       IN  /\ notifiedEvents' = done.notifiedEvents
           /\ sent' = done.sent
    /\ scanAt' = now
    /\ UNCHANGED <<now, phase, memoryCache, disk, calls, conflictCheck, bookingVars, cronVars, utilVars>>

----------------------------------------------------------------------------
(* The conflict engine: services/smartScheduling.js *)

\* Times of day are counted in the units of the clock from midnight; a day
\* has 24 * 60 * 2 of them.
UnitsOf(minutes) == 2 * minutes
DayOf(t) == t \div UnitsOf(24 * 60)
TimeOf(t) == t % UnitsOf(24 * 60)

\* DateTime.fromISO(text, { zone: 'America/Sao_Paulo' }): the instant a text
\* names; a date alone names the midnight its day begins with.
fromISO(text) == text.date * UnitsOf(24 * 60) + (IF text.time = NULL THEN 0 ELSE text.time)

\* toISO(): the text of an instant.
toISO(t) == ISO(DayOf(t), TimeOf(t))

\* toFormat('HH:mm'): hour and minute of the day; the date and the seconds
\* are dropped.
toFormat(t) == <<TimeOf(t) \div UnitsOf(60), (TimeOf(t) \div UnitsOf(1)) % 60>>

\* An event of the calendar as listEvents returns it: start.dateTime and
\* end.dateTime for a timed event, NULL for an all-day one.
Busy(id, from, to) == [id |-> id, dateTime |-> from, endDateTime |-> to]
WholeDay(id) == [id |-> id, dateTime |-> NULL, endDateTime |-> NULL]

\* Closed intervals: touching ends count as an overlap.
OverlapsClosed(s, e, s2, e2) == s <= e2 /\ e >= s2

\* startTime < eventEnd && endTime > eventStart
Overlaps(s, e, s2, e2) == s < e2 /\ e > s2

\* The entry checkConflicts pushes for a conflicting event.
Conflict(event) ==
    [id |-> event.id, start |-> toFormat(event.dateTime), end |-> toFormat(event.endDateTime)]

\* for (const event of events) { ... conflicts.push(...) } from the i-th event on.
RECURSIVE ConflictsFrom(_, _, _, _, _)
ConflictsFrom(events, i, startTime, endTime, conflicts) ==
    IF i > Len(events)
    THEN conflicts
    ELSE LET event == events[i]
         IN  IF event.dateTime = NULL
             THEN ConflictsFrom(events, i + 1, startTime, endTime, conflicts)
             ELSE IF Overlaps(startTime, endTime, event.dateTime, event.endDateTime)
                  THEN ConflictsFrom(events, i + 1, startTime, endTime,
                                     Append(conflicts, Conflict(event)))
                  ELSE ConflictsFrom(events, i + 1, startTime, endTime, conflicts)

\* The inner loop of generateAlternativeTimes from the i-th event on: whether
\* the probe [newStart, newEnd) meets a timed event.
RECURSIVE ProbeConflicts(_, _, _, _)
ProbeConflicts(existingEvents, i, newStart, newEnd) ==
    IF i > Len(existingEvents)
    THEN FALSE
    ELSE LET event == existingEvents[i]
         IN  IF event.dateTime = NULL
             THEN ProbeConflicts(existingEvents, i + 1, newStart, newEnd)
             ELSE IF Overlaps(newStart, newEnd, event.dateTime, event.endDateTime)
                  THEN TRUE
                  ELSE ProbeConflicts(existingEvents, i + 1, newStart, newEnd)

\* const offsets = [-30, 30, 60, 90, 120] (minutes)
offsets == <<-30, 30, 60, 90, 120>>

\* The label of a suggestion: '30 min antes', 'Horário sugerido', '60 min depois'.
Label(offset) ==
    IF offset < 0 THEN <<0 - offset, "min antes">>
    ELSE IF offset = 0 THEN <<0, "Horario sugerido">>
    ELSE <<offset, "min depois">>

\* A suggestion that always lasts one hour, whatever the candidate lasts.
SuggestionOneHour(newStart, newEnd, offset) ==
    [start |-> toFormat(newStart), end |-> toFormat(newStart + UnitsOf(60)),
     startISO |-> toISO(newStart), endISO |-> toISO(newStart + UnitsOf(60)),
     label |-> Label(offset)]

Suggestion(newStart, newEnd, offset) ==
    [start |-> toFormat(newStart), end |-> toFormat(newEnd),
     startISO |-> toISO(newStart), endISO |-> toISO(newEnd), label |-> Label(offset)]

\* A limit tested with > in place of >=: a fourth suggestion gets in.
EnoughSuggestionsAfter(suggestions) == Len(suggestions) > 3

\* suggestions.length >= 3
EnoughSuggestions(suggestions) == Len(suggestions) >= 3

\* for (const offset of offsets) { ... } from the k-th offset on; t is
\* DateTime.now().
RECURSIVE ProbesFrom(_, _, _, _, _, _)
ProbesFrom(k, originalStart, duration, existingEvents, t, suggestions) ==
    IF k > Len(offsets)
    THEN suggestions
    ELSE LET newStart == originalStart + UnitsOf(offsets[k])
             newEnd == newStart + duration
             found == IF ~ProbeConflicts(existingEvents, 1, newStart, newEnd) /\ newStart > t
                      THEN Append(suggestions, Suggestion(newStart, newEnd, offsets[k]))
                      ELSE suggestions
         IN  IF EnoughSuggestions(found)
             THEN found
             ELSE ProbesFrom(k + 1, originalStart, duration, existingEvents, t, found)

generateAlternativeTimes(originalStart, originalEnd, existingEvents, t) ==
    ProbesFrom(1, originalStart, originalEnd - originalStart, existingEvents, t, <<>>)

\* !eventData.start || !eventData.start.includes('T')
WithoutTime(eventData) == eventData.start.date = NULL \/ eventData.start.time = NULL

\* const startTime, const endTime
StartTime(eventData) == fromISO(eventData.start)
EndTime(eventData) ==
    IF eventData.end.date # NULL THEN fromISO(eventData.end)
    ELSE StartTime(eventData) + UnitsOf(60)

CheckEntered(eventData) == [NoCheck EXCEPT !.status = "entered", !.eventData = eventData]

Returned(check, result) == [check EXCEPT !.status = "returned", !.result = result]

\* A check that fetches the day before it looks at the candidate.
checkConflictsFetchFirst(check, r, t) ==
    IF check.status = "entered"
    THEN [check EXCEPT !.status = "fetching", !.fetches = 1]
    ELSE IF ~r.ok \/ WithoutTime(check.eventData)
         THEN Returned([check EXCEPT !.settled = r], NoConflict)
         ELSE LET conflicts == ConflictsFrom(r.value, 1, StartTime(check.eventData),
                                             EndTime(check.eventData), <<>>)
              IN  IF Len(conflicts) = 0
                  THEN Returned([check EXCEPT !.settled = r], NoConflict)
                  ELSE Returned([check EXCEPT !.settled = r],
                                [hasConflict |-> TRUE, conflicts |-> conflicts,
                                 suggestions |-> generateAlternativeTimes(
                                     StartTime(check.eventData), EndTime(check.eventData),
                                     r.value, t)])

\* A check that reports the day as taken when it could not fetch it.
checkConflictsFailClosed(check, r, t) ==
    IF check.status = "entered"
    THEN checkConflictsFetchFirst(check, r, t)
    ELSE IF ~r.ok
         THEN Returned([check EXCEPT !.settled = r],
                       [hasConflict |-> TRUE, conflicts |-> <<>>, suggestions |-> <<>>])
         ELSE checkConflictsFetchFirst(check, r, t)

\* The body of checkConflicts from its entry, or from the await of listEvents
\* which settled with r, to the next await or to the return; t is the clock.
\* An error thrown anywhere goes to the catch block, which logs and returns
\* the no-conflict result.
checkConflicts(check, r, t) ==
    IF check.status = "entered"
    THEN IF WithoutTime(check.eventData)
         THEN Returned(check, NoConflict)
         ELSE [check EXCEPT !.status = "fetching", !.fetches = 1]
    ELSE IF ~r.ok
         THEN Returned([check EXCEPT !.settled = r], NoConflict)
         ELSE LET conflicts == ConflictsFrom(r.value, 1, StartTime(check.eventData),
                                             EndTime(check.eventData), <<>>)
              IN  IF Len(conflicts) = 0
                  THEN Returned([check EXCEPT !.settled = r], NoConflict)
                  ELSE Returned([check EXCEPT !.settled = r],
                                [hasConflict |-> TRUE, conflicts |-> conflicts,
                                 suggestions |-> generateAlternativeTimes(
                                     StartTime(check.eventData), EndTime(check.eventData),
                                     r.value, t)])
\* The candidates: starts 30.5 and 90 minutes after the start of the process.
\* Half an hour before the first one is the instant T0 + 1.
Soon == T0 + UnitsOf(30) + 1
Later == T0 + UnitsOf(90)

\* The bookings checkConflicts is called with: no start, a date alone, and
\* timed starts without an end or with an end half an hour later.
Candidates ==
    { [start |-> NoText, end |-> NoText],
      [start |-> ISO(DayOf(Later), NULL), end |-> NoText] }
    \cup { [start |-> toISO(t), end |-> NoText] : t \in {Soon, Later} }
    \cup { [start |-> toISO(t), end |-> toISO(t + UnitsOf(30))] : t \in {Soon, Later} }

\* The events of the day, in the order listEvents gives them (orderBy:
\* 'startTime'), placed around the candidate that starts at Later: one that
\* ends exactly at Later, one across it, one inside its first hour, one that
\* starts exactly an hour after it, one from two hours after it on.
Day ==
    << WholeDay("d0"),
       Busy("d1", Later - UnitsOf(60), Later),
       Busy("d2", Later - UnitsOf(30), Later + UnitsOf(60)),
       Busy("d3", Later + UnitsOf(15), Later + UnitsOf(30)),
       Busy("d4", Later + UnitsOf(60), Later + UnitsOf(90)),
       Busy("d5", Later + UnitsOf(120), Later + UnitsOf(240)) >>

DayIds == { Day[i].id : i \in DOMAIN Day }

\* The results listEvents may give for the day.
DayEventLists == { SelectSeq(Day, LAMBDA e : e.id \in ids) : ids \in SUBSET DayIds }

\* checkConflicts(eventData) is called (bot handlers): it runs to its return
\* or to the await of listEvents.
CheckCall(eventData) ==
    /\ phase = "running"
    /\ conflictCheck.status \in {"idle", "returned"}
    /\ conflictCheck' = checkConflicts(CheckEntered(eventData), Rejected, now)
    /\ UNCHANGED <<now, phase, memoryCache, disk, calls, notifiedEvents, sent, scanAt,
                 bookingVars, cronVars, utilVars>>

\* An engine that keeps the events it fetched in the snapshot.
CheckEventsCaching(r) ==
    /\ conflictCheck.status = "fetching"
    /\ conflictCheck' = checkConflicts(conflictCheck, r, now)
    /\ memoryCache' = IF r.ok THEN [memoryCache EXCEPT !.events = r.value] ELSE memoryCache
    /\ UNCHANGED <<now, phase, disk, calls, notifiedEvents, sent, scanAt, bookingVars, cronVars, utilVars>>

\* await googleService.listEvents(dayStart, dayEnd) settles.
CheckEvents(r) ==
    /\ conflictCheck.status = "fetching"
    /\ conflictCheck' = checkConflicts(conflictCheck, r, now)
    /\ UNCHANGED <<now, phase, memoryCache, disk, calls, notifiedEvents, sent, scanAt,
                 bookingVars, cronVars, utilVars>>

\* The engine beside the scheduler: the cache is loaded and refreshed and the
\* scan runs while bookings are checked.
EngineNext ==
    \/ Tick
    \/ InitScheduler
    \/ Scan({})
    \/ RefreshCall(1)
    \/ \E r \in Outcomes({<<Timed("e1", T0 + 29)>>}) : RefreshEvents(1, r)
    \/ RefreshTasks(1, Resolved(<<>>))
    \/ RefreshCards(1, Resolved(<<>>), "complete")
    \/ \E eventData \in Candidates : CheckCall(eventData)
    \/ \E r \in Outcomes(DayEventLists) : CheckEvents(r)

SpecEngine == Init /\ [][EngineNext]_vars

----------------------------------------------------------------------------
\* The steps of the cache with invocations in the slots cs, invalidateCache
\* called with a type of types, and file writes that succeed as ws tells.
CacheStep(cs, types, ws) ==
    \/ Tick
    \/ InitScheduler
    \/ \E c \in cs : RefreshCall(c)
    \/ \E c \in cs, r \in Outcomes(FewEventLists) : RefreshEvents(c, r)
    \/ \E c \in cs, r \in Outcomes(TaskLists) : RefreshTasks(c, r)
    \/ \E c \in cs, r \in Outcomes(CardLists), w \in ws : RefreshCards(c, r, w)
    \/ \E c \in cs, type \in types, w \in ws : InvalidateCall(c, type, w)
    \/ \E c \in cs, r \in Outcomes(FewEventLists), w \in ws : InvalidateEvents(c, r, w)
    \/ \E c \in cs, r \in Outcomes(TaskLists), w \in ws : InvalidateTasks(c, r, w)
    \/ \E c \in cs, r \in Outcomes(CardLists), w \in ws : InvalidateCards(c, r, w)

\* The program: refreshes and invalidations as index.js and the crons call
\* them, overlapping, with a file system that takes every write.
CacheNext == CacheStep(CallIds, CallerTypes, {"complete"})

SpecCache == Init /\ [][CacheNext]_vars

\* The exported invalidateCache called with any argument, one invocation at
\* a time, with writes that may fail.
ApiNext == CacheStep({1}, InvalidateTypes, WriteOutcomes)

SpecApi == Init /\ [][ApiNext]_vars

\* The refreshes of a process that may be ended inside a save and started
\* again.
ShutdownNext ==
    \/ CacheStep({1}, {"all"}, {"complete"})
    \/ \E r \in Outcomes(CardLists), w \in WriteOutcomes : KilledInSave(1, r, w)
    \/ Restart

SpecShutdown == Init /\ [][ShutdownNext]_vars

\* The refreshes with the cards fetched list by list.
BoardNext ==
    \/ Tick
    \/ InitScheduler
    \/ RefreshCall(1)
    \/ \E r \in Outcomes(FewEventLists) : RefreshEvents(1, r)
    \/ \E r \in Outcomes(TaskLists) : RefreshTasks(1, r)
    \/ \E lists \in Outcomes({Board}), failing \in SUBSET ListIds :
          RefreshCards(1, listAllCards(lists, failing), "complete")

SpecBoard == Init /\ [][BoardNext]_vars

\* The documents a process may find when it starts: none, a truncated one,
\* and complete ones saved 60, 120 and 121 minutes before T0, with and
\* without events and tasks.
LoadableFiles ==
    { NoFile, Truncated }
    \cup { File([events |-> ev, tasks |-> IF ev = <<>> THEN <<>> ELSE <<"t1">>,
                 trelloCards |-> <<>>, lastUpdate |-> T0 - age]) :
             ev \in FewEventLists, age \in {StaleAfter \div 2, StaleAfter, StaleAfter + 2} }

InitLoad ==
    /\ now = T0
    /\ phase = "constructed"
    /\ memoryCache = EmptyCache
    /\ disk \in LoadableFiles
    /\ calls = [c \in CallIds |-> IdleCall]
    /\ notifiedEvents = {}
    /\ sent = [p \in ChatIds \X EventIds |-> <<>>]
    /\ scanAt = NULL
    /\ conflictCheck = NoCheck
    /\ session = NoSession
    /\ handlers = [h \in HandlerIds |-> IdleHandler]
    /\ created = <<>>
    /\ fired = [task \in Tasks |-> NULL]
    /\ digest = [task \in DigestTasks |-> IdleDigest]
    /\ delivered = [id \in ChatIds |-> <<>>]
    /\ retry = IdleRetry
    /\ limiter = NewLimiter
    /\ batch = IdleBatch

\* The start of the process and the refreshes it begins.
LoadNext ==
    \/ Tick
    \/ InitScheduler
    \/ \E c \in CallIds, r \in Outcomes(FewEventLists) : RefreshEvents(c, r)
    \/ \E c \in CallIds, r \in Outcomes(TaskLists) : RefreshTasks(c, r)
    \/ \E c \in CallIds, r \in Outcomes(CardLists) : RefreshCards(c, r, "complete")

SpecLoad == InitLoad /\ [][LoadNext]_vars

\* The scan with the refreshes that reload the events, one invocation at a time.
ScanNext ==
    \/ Tick
    \/ InitScheduler
    \/ \E failing \in SUBSET (ChatIds \X EventIds) : Scan(failing)
    \/ RefreshCall(1)
    \/ \E r \in Outcomes(EventLists) : RefreshEvents(1, r)
    \/ \E r \in Outcomes({<<>>}) : RefreshTasks(1, r)
    \/ \E r \in Outcomes({<<>>}) : RefreshCards(1, r, "complete")
    \/ InvalidateCall(1, "events", "complete")
    \/ \E r \in Outcomes(EventLists) : InvalidateEvents(1, r, "complete")

SpecScan == Init /\ [][ScanNext]_vars

----------------------------------------------------------------------------
(* Properties *)

Pending(c, kind) == calls[c].kind = kind /\ calls[c].status = "pending"

\* The invocation in slot c takes a step.
Steps(c) == calls'[c] # calls[c]

\* C1: full-refresh atomicity.  No stretch of a refreshDataCache invocation
\* other than its last successful one changes the cache or the file: an
\* invocation in which one of the three fetches is rejected has, from its
\* entry to its return, written nothing to events, tasks, trelloCards,
\* lastUpdate or the persisted document.
RefreshAllOrNothing ==
    [][\A c \in CallIds :
          (Pending(c, "refresh") /\ Steps(c) /\ calls'[c].status # "done")
              => (memoryCache' = memoryCache /\ disk' = disk)]_vars

\* C1 witness: a refresh ended by the rejection of listTasks, after listEvents
\* had resolved, with a loaded snapshot in the cache.
RefreshFailedAtTasks ==
    \E c \in CallIds :
        /\ calls[c].kind = "refresh"
        /\ calls[c].status = "failed"
        /\ calls[c].pc = "tasks"
        /\ memoryCache.events # <<>>
        /\ memoryCache.lastUpdate # NULL

\* The field of a snapshot that holds a domain.
Field(cache, d) ==
    CASE d = "events" -> cache.events
      [] d = "tasks" -> cache.tasks
      [] d = "trello" -> cache.trelloCards

\* What the fetch of a domain may resolve with.
ValuesOf(d) ==
    CASE d = "events" -> FewEventLists
      [] d = "tasks" -> TaskLists
      [] d = "trello" -> CardLists

Domains == {"events", "tasks", "trello"}

\* The cache after the step equals the cache before it outside the fields ds
\* and, when stamped is false, outside lastUpdate.
OnlyChanged(ds, stamped) ==
    /\ \A d \in Domains \ ds : Field(memoryCache', d) = Field(memoryCache, d)
    /\ stamped \/ memoryCache'.lastUpdate = memoryCache.lastUpdate

InvalidateAllPartial ==
    [][\A c \in CallIds :
          (Pending(c, "invalidate") /\ calls[c].type = "all" /\ Steps(c))
              => /\ \/ /\ calls'[c].status = "failed"
                       /\ memoryCache' = memoryCache
                    \/ /\ calls'[c].status = "pending"
                       /\ <<calls[c].pc, calls'[c].pc>> \in
                              {<<"events", "tasks">>, <<"tasks", "trello">>}
                       /\ OnlyChanged({calls[c].pc}, FALSE)
                    \/ /\ calls'[c].status = "done"
                       /\ calls[c].pc = "trello"
                       /\ OnlyChanged({"trello"}, TRUE)
                 /\ LET rejected == invalidateCache(memoryCache, calls[c], Rejected)
                    IN  /\ rejected.call.status = "failed"
                        /\ rejected.cache = memoryCache
                        /\ ~rejected.save]_vars

\* C7 witness: invalidateCache('all') ended by the rejection of listAllCards,
\* with the events and tasks it had assigned in the cache and the cache
\* unstamped.
InvalidateAllFailedAtCards ==
    \E c \in CallIds :
        /\ calls[c].kind = "invalidate"
        /\ calls[c].type = "all"
        /\ calls[c].status = "failed"
        /\ calls[c].pc = "trello"
        /\ disk.state = "missing"
        /\ memoryCache.events # <<>>
        /\ memoryCache.tasks # <<>>
        /\ memoryCache.trelloCards = <<>>
        /\ memoryCache.lastUpdate = NULL

\* C8: lastUpdate never decreases, whatever the interleaving of the
\* refreshDataCache and invalidateCache invocations.
LastUpdateNeverDecreases ==
    [][memoryCache'.lastUpdate >= memoryCache.lastUpdate]_vars

\* C9: lastUpdate is only advanced together with data.  After the load, a step
\* that changes lastUpdate is the continuation of a fetch that resolved, whose
\* value the step assigns to a field of the cache.
LastUpdateOnlyWithData ==
    [][(phase = "running" /\ memoryCache'.lastUpdate # memoryCache.lastUpdate)
          => \E c \in CallIds :
                /\ Steps(c)
                /\ calls[c].status = "pending"
                /\ calls[c].pc \in Domains
                /\ calls'[c].status = "done"]_vars

\* The domains an invalidateCache invocation has assigned when the step it
\* takes is over.
ReplacedBy(c) ==
    { d \in Domains :
        /\ calls[c].type = "all" \/ calls[c].type = d
        /\ \/ StageIndex(d) < StageIndex(calls[c].pc)
           \/ d = calls[c].pc /\ calls'[c].status = "done" }

\* C10: every patch advances lastUpdate and persists.  When an invalidateCache
\* invocation that has assigned a field returns, lastUpdate is not older than
\* the invocation and the file holds the cache's value of each field it
\* assigned (the write succeeding).
PatchStampedAndPersisted ==
    [][\A c \in CallIds :
          (Pending(c, "invalidate") /\ Steps(c) /\ calls'[c].status # "pending"
              /\ ReplacedBy(c) # {})
              => /\ memoryCache'.lastUpdate >= calls[c].now
                 /\ disk'.state = "valid"
                 /\ \A d \in ReplacedBy(c) :
                       Field(disk'.doc, d) = Field(memoryCache', d)]_vars

\* The ids of the events of the snapshot that are timed, not yet notified and
\* between 14 and 15.5 minutes (28 and 31 units) ahead.
DueNow ==
    { i \in EventIds :
        /\ i \notin notifiedEvents
        /\ \E k \in 1 .. Len(memoryCache.events) :
              LET e == memoryCache.events[k]
              IN  /\ e.id = i
                  /\ e.dateTime # NULL
                  /\ e.dateTime - now >= 28
                  /\ e.dateTime - now <= 31 }

Pairs == ChatIds \X EventIds

\* C2: at-most-once reminder.  No recipient is ever sent more than one
\* reminder for an event id, however many ticks see the event inside the
\* window and whatever refreshes reload it in between.
AtMostOneReminder ==
    \A p \in Pairs : Len(sent[p]) <= 1

\* C2 witness: a tick has just seen, inside the window, an event that an
\* earlier tick reminded of and that a refresh has reloaded since with the
\* same start; it has sent nothing more.
SecondTickInWindow ==
    \E p \in Pairs, k \in 1 .. Len(memoryCache.events) :
        /\ memoryCache.events[k].id = p[2]
        /\ memoryCache.events[k].dateTime # NULL
        /\ InWindow(memoryCache.events[k].dateTime - now)
        /\ scanAt = now
        /\ Len(sent[p]) = 1
        /\ sent[p][1].at < now
        /\ sent[p][1].dateTime = memoryCache.events[k].dateTime
        /\ memoryCache.lastUpdate > sent[p][1].at

\* C3: notifiedEvents is append-only.  No step removes an id from it, and no
\* step sends a reminder for an id that is in it.
NotifiedAppendOnly ==
    [][/\ notifiedEvents \subseteq notifiedEvents'
       /\ \A p \in Pairs : p[2] \in notifiedEvents => sent'[p] = sent[p]]_vars

\* C3 witness: a tick has just seen, inside the window, a notified event that
\* a refresh has reloaded with another start; it has sent nothing more.
NotifiedEventMoved ==
    \E p \in Pairs, k \in 1 .. Len(memoryCache.events) :
        /\ memoryCache.events[k].id = p[2]
        /\ memoryCache.events[k].dateTime # NULL
        /\ InWindow(memoryCache.events[k].dateTime - now)
        /\ scanAt = now
        /\ p[2] \in notifiedEvents
        /\ Len(sent[p]) = 1
        /\ sent[p][1].dateTime # memoryCache.events[k].dateTime

\* C4: a tick sends one reminder to every recipient for exactly the events
\* that are due (timed, not notified, 14 <= minutesUntil <= 15.5) and adds
\* exactly their ids to notifiedEvents; no other step sends or adds.
ScanRemindsExactlyDue ==
    [][IF scanAt' # scanAt
       THEN /\ notifiedEvents' = notifiedEvents \cup DueNow
            /\ \A p \in Pairs :
                  IF p[2] \in DueNow
                  THEN /\ Len(sent'[p]) = Len(sent[p]) + 1
                       /\ sent'[p][Len(sent'[p])].at = now
                  ELSE sent'[p] = sent[p]
       ELSE UNCHANGED <<notifiedEvents, sent>>]_vars

\* C4 witness: one tick has reminded of an event exactly 14 minutes ahead and
\* of one exactly 15.5 minutes ahead.
RemindedAtBothBounds ==
    \E c \in ChatIds :
        /\ Len(sent[<<c, "e1">>]) = 1
        /\ Len(sent[<<c, "e2">>]) = 1
        /\ sent[<<c, "e1">>][1].dateTime - sent[<<c, "e1">>][1].at = 28
        /\ sent[<<c, "e2">>][1].dateTime - sent[<<c, "e2">>][1].at = 31
        /\ sent[<<c, "e1">>][1].at = sent[<<c, "e2">>][1].at

\* C5: delivery is best-effort.  In a tick in which a send is rejected, the
\* event of that send is still added to notifiedEvents and every due event of
\* the snapshot is still sent to every recipient.
RejectedSendIsSwallowed ==
    [][\A p \in Pairs :
          (Len(sent'[p]) > Len(sent[p]) /\ ~sent'[p][Len(sent'[p])].delivered)
              => /\ p[2] \in notifiedEvents'
                 /\ \A q \in Pairs :
                       q[2] \in DueNow => Len(sent'[q]) = Len(sent[q]) + 1]_vars

\* C5 witness: the send of e1's reminder to u1 was rejected; u2 was sent it,
\* e1 is notified, and the same tick went on to remind u1 of e2.
RejectedThenContinued ==
    /\ Len(sent[<<"u1", "e1">>]) = 1
    /\ ~sent[<<"u1", "e1">>][1].delivered
    /\ Len(sent[<<"u2", "e1">>]) = 1
    /\ sent[<<"u2", "e1">>][1].delivered
    /\ "e1" \in notifiedEvents
    /\ Len(sent[<<"u1", "e2">>]) = 1
    /\ sent[<<"u1", "e2">>][1].at = sent[<<"u1", "e1">>][1].at
    /\ \E k \in 1 .. Len(memoryCache.events) - 1 :
          /\ memoryCache.events[k].id = "e1"
          /\ memoryCache.events[k + 1].id = "e2"

----------------------------------------------------------------------------
(* Properties of the snapshot: readers, persistence, load *)

\* C11: snapshot consistency for readers.  The scan and the digest composer
\* read the cache in one stretch without an await, between two steps of the
\* invocations in flight.  A step of a refreshDataCache invocation leaves the
\* cache as it was before the invocation touched it, or replaces events,
\* tasks, trelloCards and lastUpdate together by what the invocation fetched;
\* a firing of the scan changes neither the cache nor an invocation.
ReadersSeeOldOrNew ==
    [][/\ \A c \in CallIds :
             (Pending(c, "refresh") /\ Steps(c))
                => \/ memoryCache' = memoryCache
                   \/ /\ calls'[c].status = "done"
                      /\ memoryCache'.events = calls[c].events
                      /\ memoryCache'.tasks = calls[c].tasks
                      /\ memoryCache'.lastUpdate = calls[c].now
                      /\ memoryCache'.trelloCards \in CardLists
       /\ scanAt' # scanAt => UNCHANGED <<memoryCache, calls>>]_vars

\* C11 witness: the scan has fired, and reminded of an event of the loaded
\* snapshot, while a refresh entered earlier holds other events and other
\* tasks and awaits the cards; the cache is still the loaded one.
ScanDuringRefresh ==
    /\ Pending(1, "refresh")
    /\ calls[1].pc = "trello"
    /\ calls[1].now < now
    /\ scanAt = now
    /\ calls[1].events # memoryCache.events
    /\ calls[1].tasks # memoryCache.tasks
    /\ disk.state = "valid"
    /\ memoryCache = disk.doc
    /\ \E p \in ChatIds \X EventIds :
          /\ Len(sent[p]) = 1
          /\ sent[p][1].at = now
          /\ sent[p][1].dateTime = memoryCache.events[1].dateTime

\* C12: the document is written all-or-nothing.  Whatever step changes the
\* file, the end of the process inside a save included, the file holds the
\* complete document of the cache afterwards.
DocumentAllOrNothing ==
    [][disk' # disk => disk' = File(memoryCache')]_vars

\* C13: refreshDataCache installs no partial card set.  After a step of a
\* refresh the cards of the cache are those it held before or the cards of
\* every list of the board.
NoPartialCards ==
    [][\A c \in CallIds :
          (Pending(c, "refresh") /\ Steps(c))
             => \/ memoryCache'.trelloCards = memoryCache.trelloCards
                \/ memoryCache'.trelloCards = listAllCards(Resolved(Board), {}).value]_vars

\* The step of initScheduler.
Loads == phase = "constructed" /\ phase' # phase

\* C14: staleness on load.  When initScheduler has loaded a document, the
\* refreshes it has started are one for the age exactly when now - lastUpdate
\* is more than two hours, and one more when the document has neither events
\* nor tasks; the cache holds the document, and the refreshes are pending at
\* their first await when initScheduler is over.
StaleExactlyAfterTwoHours ==
    [][(Loads /\ disk.state = "valid")
          => LET stale == now - disk.doc.lastUpdate > UnitsOf(120)
                 empty == disk.doc.events = <<>> /\ disk.doc.tasks = <<>>
                 started == { c \in CallIds : calls'[c] # calls[c] }
             IN  /\ Cardinality(started) = (IF stale THEN 1 ELSE 0) + (IF empty THEN 1 ELSE 0)
                 /\ \A c \in started :
                       /\ calls'[c].kind = "refresh"
                       /\ calls'[c].status = "pending"
                       /\ calls'[c].pc = "events"
                 /\ memoryCache' = disk.doc
                 /\ phase' = "running"]_vars

\* C14 witness: a snapshot with events, saved 121 minutes ago, is in the
\* cache and the refresh started for its age awaits listEvents.
StaleSnapshotRefreshing ==
    /\ phase = "running"
    /\ memoryCache.events # <<>>
    /\ now - memoryCache.lastUpdate = UnitsOf(121)
    /\ calls[1].status = "pending"
    /\ calls[1].pc = "events"
    /\ calls[1].now = now
    /\ calls[2].status = "idle"

\* C15: a missing or unreadable document.  When initScheduler finds no
\* document, or one that JSON.parse rejects, the cache is empty with
\* lastUpdate null afterwards, initScheduler goes on, and one refresh is
\* started; the file is left as it is.
UnreadableLoadsEmpty ==
    [][(Loads /\ disk.state # "valid")
          => /\ memoryCache' = [events |-> <<>>, tasks |-> <<>>, trelloCards |-> <<>>,
                                lastUpdate |-> NULL]
             /\ phase' = "running"
             /\ calls'[1].kind = "refresh"
             /\ calls'[1].status = "pending"
             /\ \A c \in CallIds \ {1} : calls'[c] = calls[c]
             /\ disk' = disk]_vars

\* C15 witness: the process was started on a truncated document; the cache
\* is empty and the first refresh awaits listEvents.
TruncatedThenRefreshing ==
    /\ phase = "running"
    /\ disk.state = "truncated"
    /\ memoryCache.events = <<>>
    /\ memoryCache.lastUpdate = NULL
    /\ calls[1].kind = "refresh"
    /\ calls[1].status = "pending"
    /\ calls[1].pc = "events"

\* C16: a failed write.  When an invocation ends with all its fetches
\* resolved and the file does not hold the cache afterwards, the cache has
\* the lastUpdate of the invocation and the file is as it was before.
WriteFailureKeepsDocument ==
    [][\A c \in CallIds :
          (calls[c].status = "pending" /\ Steps(c) /\ calls'[c].status = "done"
              /\ disk' # File(memoryCache'))
             => /\ memoryCache'.lastUpdate = calls[c].now
                /\ disk' = disk]_vars

----------------------------------------------------------------------------
(* Properties of the conflict engine *)

\* The step in which checkConflicts returns after its listEvents call resolved.
ReturnsWithEvents ==
    /\ conflictCheck.status = "fetching"
    /\ conflictCheck'.status = "returned"
    /\ conflictCheck'.settled.ok

\* The candidate's interval in units of the clock: its end, or one hour after
\* its start when it has none.
CandidateStart == fromISO(conflictCheck.eventData.start)
CandidateEnd ==
    IF conflictCheck.eventData.end.date = NULL THEN CandidateStart + UnitsOf(60)
    ELSE fromISO(conflictCheck.eventData.end)

\* The positions, in a fetched list, of the timed events that the half-open
\* interval [s, e) meets.
Hits(events, s, e) ==
    { i \in DOMAIN events :
        /\ events[i].dateTime # NULL
        /\ s < events[i].endDateTime
        /\ e > events[i].dateTime }

\* C17: overlap correctness.  When checkConflicts returns after listEvents
\* resolved, its conflicts are, in the fetched order, exactly the timed events
\* [s2, e2) of the fetched list with s < e2 and e > s2, and hasConflict tells
\* whether there is one.
OverlapCorrect ==
    [][ReturnsWithEvents
          => LET events == conflictCheck'.settled.value
                 hits == Hits(events, CandidateStart, CandidateEnd)
                 result == conflictCheck'.result
             IN  /\ Len(result.conflicts) = Cardinality(hits)
                 /\ \A k \in DOMAIN result.conflicts :
                       \E i \in hits :
                          /\ result.conflicts[k].id = events[i].id
                          /\ Cardinality({ j \in hits : j < i }) = k - 1
                 /\ result.hasConflict <=> hits # {}]_vars

\* C17 witness: the candidate [Later, Later + 1 h) was checked against an
\* all-day event, an event that ends at Later, one across Later and one that
\* starts at Later + 1 h; the one across Later is the only conflict.
OnlyTheOverlappingEvent ==
    /\ conflictCheck.status = "returned"
    /\ conflictCheck.eventData = [start |-> toISO(Later), end |-> NoText]
    /\ conflictCheck.settled.ok
    /\ conflictCheck.settled.value = SelectSeq(Day, LAMBDA e : e.id \in {"d0", "d1", "d2", "d4"})
    /\ conflictCheck.result.hasConflict
    /\ Len(conflictCheck.result.conflicts) = 1
    /\ conflictCheck.result.conflicts[1].id = "d2"

\* C18: a candidate whose start has no time of day is answered at once.  The
\* call returns in its first stretch with hasConflict false, no conflicts and
\* no suggestions, and it has issued no listEvents call.
NoTimeNoFetch ==
    [][(conflictCheck' # conflictCheck /\ conflictCheck.status \in {"idle", "returned"}
           /\ conflictCheck'.eventData.start.time = NULL)
          => /\ conflictCheck'.status = "returned"
             /\ conflictCheck'.fetches = 0
             /\ conflictCheck'.result =
                   [hasConflict |-> FALSE, conflicts |-> <<>>, suggestions |-> <<>>]]_vars

\* C18 witness: the check of a booking with a date alone has returned without
\* a fetch, with events in the snapshot.
DateAloneReturned ==
    /\ conflictCheck.status = "returned"
    /\ conflictCheck.eventData.start = ISO(DayOf(Later), NULL)
    /\ conflictCheck.fetches = 0
    /\ ~conflictCheck.result.hasConflict
    /\ memoryCache.events # <<>>

Accepted(k, events, s, e, t) ==
    /\ s + UnitsOf(offsets[k]) > t
    /\ Hits(events, s + UnitsOf(offsets[k]), e + UnitsOf(offsets[k])) = {}

\* C20: the suggestions are the first three accepted probes of the offsets
\* -30, +30, +60, +90, +120 minutes, in that order, or all the accepted
\* probes when they are fewer.
FirstThreeAccepted ==
    [][(ReturnsWithEvents /\ conflictCheck'.result.hasConflict)
          => LET events == conflictCheck'.settled.value
                 accepted == { k \in 1 .. 5 :
                                 Accepted(k, events, CandidateStart, CandidateEnd, now) }
                 first == { k \in accepted : Cardinality({ j \in accepted : j < k }) < 3 }
                 suggestions == conflictCheck'.result.suggestions
             IN  /\ Len(suggestions) = Cardinality(first)
                 /\ \A n \in DOMAIN suggestions :
                       \E k \in first :
                          /\ Cardinality({ j \in first : j < k }) = n - 1
                          /\ suggestions[n].startISO
                                = toISO(CandidateStart + UnitsOf(<<-30, 30, 60, 90, 120>>[k]))
                          /\ suggestions[n].label
                                = IF k = 1 THEN <<30, "min antes">>
                                  ELSE <<<<-30, 30, 60, 90, 120>>[k], "min depois">>]_vars

\* C20 witness: the day is booked from half an hour before the candidate to
\* an hour after its start and again from two hours after it; the slot one
\* hour later is the only suggestion.
OnlyTheSlotOneHourLater ==
    /\ conflictCheck.status = "returned"
    /\ conflictCheck.eventData = [start |-> toISO(Later), end |-> NoText]
    /\ conflictCheck.settled.value = SelectSeq(Day, LAMBDA e : e.id \in {"d2", "d5"})
    /\ Len(conflictCheck.result.suggestions) = 1
    /\ conflictCheck.result.suggestions[1].startISO = toISO(Later + UnitsOf(60))
    /\ conflictCheck.result.suggestions[1].endISO = toISO(Later + UnitsOf(120))
    /\ conflictCheck.result.suggestions[1].label = <<60, "min depois">>

\* C21: every suggestion is a free slot.  Each suggestion checkConflicts
\* returns starts at the candidate's start plus one of the offsets, lasts as
\* long as the candidate, starts after the clock and meets no timed event of
\* the fetched list (half-open rule); its HH:mm texts are those of its start
\* and end.
SuggestionsAreFreeSlots ==
    [][ReturnsWithEvents
          => LET events == conflictCheck'.settled.value
                 duration == CandidateEnd - CandidateStart
                 suggestions == conflictCheck'.result.suggestions
             IN  \A n \in DOMAIN suggestions :
                    \E minutes \in {-30, 30, 60, 90, 120} :
                       LET st == CandidateStart + UnitsOf(minutes)
                       IN  /\ suggestions[n].startISO = toISO(st)
                           /\ suggestions[n].endISO = toISO(st + duration)
                           /\ suggestions[n].start = toFormat(st)
                           /\ suggestions[n].end = toFormat(st + duration)
                           /\ st > now
                           /\ \A i \in DOMAIN events :
                                 events[i].dateTime # NULL
                                    => \/ st >= events[i].endDateTime
                                       \/ st + duration <= events[i].dateTime]_vars

\* C21 witness: a half-hour candidate at Later met the event inside its
\* half hour, on a day that also holds an all-day event and one two hours
\* later; the slots half an hour earlier, half an hour later and one hour
\* later were suggested.
ThreeHalfHourSlots ==
    /\ conflictCheck.status = "returned"
    /\ conflictCheck.eventData = [start |-> toISO(Later), end |-> toISO(Later + UnitsOf(30))]
    /\ conflictCheck.settled.value = SelectSeq(Day, LAMBDA e : e.id \in {"d0", "d3", "d5"})
    /\ Len(conflictCheck.result.suggestions) = 3
    /\ conflictCheck.result.suggestions[1].startISO = toISO(Later - UnitsOf(30))
    /\ conflictCheck.result.suggestions[1].endISO = toISO(Later)
    /\ conflictCheck.result.suggestions[3].endISO = toISO(Later + UnitsOf(90))

----------------------------------------------------------------------------
(* Booking: validateSchedulingContext and the handlers of index.js *)

MaxCreates == 2      \* createEvent calls issued while the model runs

\* startTime.hour and startTime.weekday (1 = Monday .. 7 = Sunday); day 0 of
\* the clock is a Thursday.
HourOf(t) == TimeOf(t) \div UnitsOf(60)
Weekday(t) == ((DayOf(t) + 3) % 7) + 1

\* A warning text; hours is the number the text of a long event carries.
Warning(text, hours) == [text |-> text, hours |-> hours]
Unspecified == Warning("Horario nao especificado", NULL)
InThePast == Warning("Nao e possivel agendar no passado", NULL)
SmallHours == Warning("Evento marcado para madrugada", NULL)
LateNight == Warning("Evento marcado para tarde da noite", NULL)
Weekend == Warning("Evento no fim de semana", NULL)
\* `Evento longo (${Math.round(duration)} horas)`, duration in units
LongEvent(duration) == Warning("Evento longo", (duration + UnitsOf(30)) \div UnitsOf(60))

\* A validation that also turns down a start at the very instant of the clock.
validateSchedulingContextInclusive(eventData, t) ==
    IF eventData.start.date = NULL
    THEN [isValid |-> FALSE, warnings |-> <<Unspecified>>]
    ELSE IF fromISO(eventData.start) <= t /\ eventData.start.time # NULL
         THEN [isValid |-> FALSE, warnings |-> <<InThePast>>]
         ELSE Valid

\* validateSchedulingContext(eventData) at the clock value t.
validateSchedulingContext(eventData, t) ==
    IF eventData.start.date = NULL
    THEN [isValid |-> FALSE, warnings |-> <<Unspecified>>]
    ELSE LET startTime == fromISO(eventData.start)
         IN  IF startTime < t /\ eventData.start.time # NULL
             THEN [isValid |-> FALSE, warnings |-> <<InThePast>>]
             ELSE [isValid |-> TRUE,
                   warnings |->
                       (IF HourOf(startTime) < 6 THEN <<SmallHours>> ELSE <<>>)
                       \o (IF HourOf(startTime) >= 22 THEN <<LateNight>> ELSE <<>>)
                       \o (IF Weekday(startTime) >= 6 THEN <<Weekend>> ELSE <<>>)
                       \o (IF eventData.end.date # NULL
                              /\ fromISO(eventData.end) - startTime > UnitsOf(3 * 60)
                           THEN <<LongEvent(fromISO(eventData.end) - startTime)>>
                           ELSE <<>>)]

\* A createEvent call: the booking passed, the handler that issued it, the
\* clock at the call, and "pending", "ok" or "failed".
CreateCall(intent, via, t) == [intent |-> intent, via |-> via, at |-> t, status |-> "pending"]

InFlight(h) == handlers[h].pc \in {"checking", "answering", "creating", "editing"}

\* A handler may start while the createEvent calls it and the handlers in
\* flight may issue stay within MaxCreates.
MayStart(h) ==
    /\ phase = "running"
    /\ ~InFlight(h)
    /\ Len(created) + Cardinality({g \in HandlerIds : InFlight(g)}) < MaxCreates

\* What a stretch of a handler leaves: its own record, the session and the
\* createEvent calls.
Left(handler, sess, log) == [handler |-> handler, session |-> sess, created |-> log]

Creating(handler, intent, sess, log, t) ==
    Left([handler EXCEPT !.pc = "creating", !.intent = intent, !.entry = Len(log) + 1],
         sess, Append(log, CreateCall(intent, handler.kind, t)))

\* processIntent, create_event, from the return of checkConflicts (result) to
\* the await of createEvent or to the return.
processIntent(handler, result, sess, log, t) ==
    IF result.hasConflict
    THEN Left([handler EXCEPT !.pc = "conflict"],
              [pending |-> TRUE, pendingEvent |-> handler.intent,
               conflictSuggestions |-> result.suggestions], log)
    ELSE LET contextValidation == validateSchedulingContext(handler.intent, t)
         IN  IF ~contextValidation.isValid
             THEN Left([handler EXCEPT !.pc = "invalid",
                                       !.contextValidation = contextValidation], sess, log)
             ELSE Creating([handler EXCEPT !.contextValidation = contextValidation],
                           handler.intent, sess, log, t)

\* bot.action('conflict_force') from the return of answerCbQuery to the await
\* of createEvent or to the return.
conflictForce(handler, sess, log, t) ==
    IF ~sess.pending
    THEN Left([handler EXCEPT !.pc = "lost"], sess, log)
    ELSE Creating(handler, sess.pendingEvent, sess, log, t)

\* bot.action(/conflict_accept:(\d+)/) likewise; the index counts from 1 here.
conflictAccept(handler, sess, log, t) ==
    IF ~sess.pending
    THEN Left([handler EXCEPT !.pc = "lost"], sess, log)
    ELSE IF handler.index \notin DOMAIN sess.conflictSuggestions
         THEN Left([handler EXCEPT !.pc = "no suggestion"], sess, log)
         ELSE Creating(handler,
                       [start |-> sess.conflictSuggestions[handler.index].startISO,
                        end |-> sess.conflictSuggestions[handler.index].endISO],
                       sess, log, t)

\* bot.action('conflict_cancel') from the return of answerCbQuery on.
conflictCancel(handler, sess, log, t) ==
    Left([handler EXCEPT !.pc = "cancelled"], NoSession, log)

\* A create_event intent reaches processIntent: checkConflicts is called and
\* runs to its return or to the await of listEvents.
ProcessIntent(h, intent) ==
    /\ MayStart(h)
    /\ conflictCheck.status \in {"idle", "returned"}
    /\ \A g \in HandlerIds : handlers[g].pc # "checking"
    /\ handlers' = [handlers EXCEPT ![h] = [IdleHandler EXCEPT !.kind = "intent",
                                                               !.pc = "checking",
                                                               !.intent = intent]]
    /\ conflictCheck' = checkConflicts(CheckEntered(intent), Rejected, now)
    /\ UNCHANGED <<now, phase, memoryCache, disk, calls, notifiedEvents, sent, scanAt,
                   session, created, cronVars, utilVars>>

\* await smartScheduling.checkConflicts(intent) has returned.
IntentChecked(h) ==
    /\ handlers[h].pc = "checking"
    /\ conflictCheck.status = "returned"
    /\ LET left == processIntent(handlers[h], conflictCheck.result, session, created, now)
       IN  /\ handlers' = [handlers EXCEPT ![h] = left.handler]
           /\ session' = left.session
           /\ created' = left.created
    /\ UNCHANGED <<now, phase, memoryCache, disk, calls, notifiedEvents, sent, scanAt,
                   conflictCheck, cronVars, utilVars>>

\* A button of the conflict message is pressed: the callback runs to the
\* await of answerCbQuery.
Press(h, kind, index) ==
    /\ MayStart(h)
    /\ session.pending
    /\ handlers' = [handlers EXCEPT ![h] = [IdleHandler EXCEPT !.kind = kind,
                                                               !.pc = "answering",
                                                               !.index = index]]
    /\ UNCHANGED <<now, phase, memoryCache, disk, calls, notifiedEvents, sent, scanAt,
                   conflictCheck, session, created, cronVars, utilVars>>

\* await ctx.answerCbQuery(...) has returned.
Answered(h) ==
    /\ handlers[h].pc = "answering"
    /\ LET left == CASE handlers[h].kind = "force" ->
                            conflictForce(handlers[h], session, created, now)
                      [] handlers[h].kind = "accept" ->
                            conflictAccept(handlers[h], session, created, now)
                      [] OTHER -> conflictCancel(handlers[h], session, created, now)
       IN  /\ handlers' = [handlers EXCEPT ![h] = left.handler]
           /\ session' = left.session
           /\ created' = left.created
    /\ UNCHANGED <<now, phase, memoryCache, disk, calls, notifiedEvents, sent, scanAt,
                   conflictCheck, cronVars, utilVars>>

\* The handler after a createEvent that succeeded: processIntent goes on to
\* its reply, the button callbacks await editMessageText.
AfterCreate(handler) ==
    [handler EXCEPT !.pc = IF handler.kind = "intent" THEN "created" ELSE "editing"]

\* A handler that does not tell the scheduler about the event it created.
CreatedSilent(h, c) ==
    /\ handlers[h].pc = "creating"
    /\ FirstFree(c)
    /\ created' = [created EXCEPT ![handlers[h].entry].status = "ok"]
    /\ handlers' = [handlers EXCEPT ![h] = AfterCreate(handlers[h])]
    /\ UNCHANGED <<now, phase, memoryCache, disk, calls, notifiedEvents, sent, scanAt,
                   conflictCheck, session, cronVars, utilVars>>

\* await googleService.createEvent(intent) resolves: the handler goes on to
\* scheduler.invalidateCache('events'), which runs to its first await in the
\* free slot c (processIntent formats the date of the booking in between).
Created(h, c) ==
    /\ handlers[h].pc = "creating"
    /\ FirstFree(c)
    /\ created' = [created EXCEPT ![handlers[h].entry].status = "ok"]
    /\ handlers' = [handlers EXCEPT ![h] = AfterCreate(handlers[h])]
    /\ LET step == invalidateCache(memoryCache, InvalidateEntered("events", now),
                                   Resolved(<<>>))
       IN  /\ memoryCache' = step.cache
           /\ disk' = IF step.save THEN saveCacheToDisk(step.cache, disk, "complete")
                      ELSE disk
           /\ calls' = [calls EXCEPT ![c] = step.call]
    /\ UNCHANGED <<now, phase, notifiedEvents, sent, scanAt, conflictCheck, session,
                   cronVars, utilVars>>

\* await googleService.createEvent(intent) rejects: the catch block of the
\* handler logs and replies.
CreateFailed(h) ==
    /\ handlers[h].pc = "creating"
    /\ created' = [created EXCEPT ![handlers[h].entry].status = "failed"]
    /\ handlers' = [handlers EXCEPT ![h].pc = "error"]
    /\ UNCHANGED <<now, phase, memoryCache, disk, calls, notifiedEvents, sent, scanAt,
                   conflictCheck, session, cronVars, utilVars>>

\* await ctx.editMessageText(...) of a button callback settles: the session
\* fields are deleted after it resolved, the catch block runs after it
\* rejected.
Edited(h, ok) ==
    /\ handlers[h].pc = "editing"
    /\ handlers' = [handlers EXCEPT ![h].pc = IF ok THEN "done" ELSE "error"]
    /\ session' = IF ok THEN NoSession ELSE session
    /\ UNCHANGED <<now, phase, memoryCache, disk, calls, notifiedEvents, sent, scanAt,
                   conflictCheck, created, cronVars, utilVars>>

\* The bookings validateSchedulingContext is given: no start, dates alone (the
\* day the process starts on, a Thursday, and the Saturday after it), and
\* timed starts around the clock, at the hours 5:59, 6:00, 21:59 and 22:00 of
\* the first day, and at 10:00 of the Saturday, Sunday and Monday; each timed
\* start without an end, with an end three hours later, and with an end three
\* hours and 30 s later.
Day0 == DayOf(T0)
StartInstants ==
    { T0 - 1, T0 + 1, Later,
      UnitsOf(6 * 60) - 1, UnitsOf(6 * 60), UnitsOf(22 * 60) - 1, UnitsOf(22 * 60) }
    \cup { UnitsOf((d * 24 + 10) * 60) : d \in {Day0 + 2, Day0 + 3, Day0 + 4} }
Contexts ==
    { NoIntent,
      [start |-> ISO(Day0, NULL), end |-> NoText],
      [start |-> ISO(Day0 + 2, NULL), end |-> NoText] }
    \cup { [start |-> toISO(t), end |-> NoText] : t \in StartInstants }
    \cup { [start |-> toISO(t), end |-> toISO(t + UnitsOf(3 * 60) + d)] :
              t \in StartInstants, d \in {0, 1} }

\* Bookings that meet no other event are validated and created, one after
\* the other until a createEvent call was issued.
ValidateNext ==
    \/ Tick
    \/ InitScheduler
    \/ \E intent \in Contexts : created = <<>> /\ ProcessIntent(1, intent)
    \/ \E r \in {Rejected, Resolved(<<>>)} : CheckEvents(r)
    \/ IntentChecked(1)
    \/ \E c \in CallIds : Created(1, c)
    \/ CreateFailed(1)

SpecValidate == Init /\ [][ValidateNext]_vars

\* C22: validateSchedulingContext turns a booking down exactly when it has no
\* start, or its start has a time of day and lies strictly before the clock;
\* every other booking (a date alone in the past, a start at the very instant
\* of the clock) is valid and goes on to createEvent.  A valid booking
\* carries each advisory warning exactly when its condition holds: start hour
\* below 6, start hour 22 or above, Saturday or Sunday, end more than three
\* hours after the start.
ValidationCorrect ==
    [][\A h \in HandlerIds :
          handlers[h].pc = "checking" /\ handlers'[h].pc \in {"invalid", "creating"}
             => LET e == handlers[h].intent
                    v == handlers'[h].contextValidation
                    st == e.start.date * UnitsOf(24 * 60)
                          + (IF e.start.time = NULL THEN 0 ELSE e.start.time)
                    has(w) == \E n \in DOMAIN v.warnings : v.warnings[n].text = w.text
                    hard == \/ e.start.date = NULL
                            \/ e.start.time # NULL /\ st < now
                IN  /\ v.isValid = ~hard
                    /\ (handlers'[h].pc = "creating") = v.isValid
                    /\ v.isValid
                          => /\ has(SmallHours) = (TimeOf(st) < UnitsOf(6 * 60))
                             /\ has(LateNight) = (TimeOf(st) >= UnitsOf(22 * 60))
                             /\ has(Weekend) = (DayOf(st) % 7 \in {2, 3})
                             /\ has(LongEvent(0))
                                   = (e.end.date # NULL
                                      /\ fromISO(e.end) - st > UnitsOf(3 * 60))
                             /\ Len(v.warnings) <= 4]_vars

\* C22 witness: a booking that starts at the very instant of the clock, at
\* 2:30 of a Thursday, and ends three hours and 30 s later was found valid
\* with the warnings of the small hours and of the long event (3 hours).
StartAtNowIsValid ==
    \E h \in HandlerIds :
       /\ handlers[h].pc = "creating"
       /\ handlers[h].intent = [start |-> toISO(T0 + 1),
                                end |-> toISO(T0 + 1 + UnitsOf(3 * 60) + 1)]
       /\ created[handlers[h].entry].at = T0 + 1
       /\ handlers[h].contextValidation
             = [isValid |-> TRUE, warnings |-> <<SmallHours, LongEvent(UnitsOf(3 * 60))>>]

----------------------------------------------------------------------------
(* Bookings that meet other events *)

\* The bookings: no start, a timed start 30 s before the start of the
\* process (an hour long by default), and the half hour that starts at Later.
Bookings ==
    { NoIntent,
      [start |-> toISO(T0 - 1), end |-> NoText],
      [start |-> toISO(Later), end |-> toISO(Later + UnitsOf(30))] }

\* What listEvents may give for their day: the event that ends at Later (it
\* lies across the second booking), or the event across Later.
BookingDays == { <<Day[2]>>, <<Day[3]>> }

\* Bookings are requested one after the other, and the buttons of a conflict
\* message are pressed while its booking is pending, until a createEvent
\* call was issued.
BookingNext ==
    \/ Tick
    \/ InitScheduler
    \/ \E intent \in Bookings : created = <<>> /\ ProcessIntent(1, intent)
    \/ \E r \in Outcomes(BookingDays) : CheckEvents(r)
    \/ IntentChecked(1)
    \/ \E kind \in {"force", "accept", "cancel"} : created = <<>> /\ Press(1, kind, 1)
    \/ Answered(1)
    \/ \E c \in CallIds : Created(1, c)
    \/ CreateFailed(1)
    \/ \E ok \in BOOLEAN : Edited(1, ok)
    \/ \E c \in CallIds, r \in {Rejected, Resolved(<<>>)} : InvalidateEvents(c, r, "complete")

SpecBooking == Init /\ [][BookingNext]_vars

\* C23: no createEvent call is issued for a booking that has no start, or
\* whose start has a time of day and lies strictly before the clock at the
\* call.
NoInvalidBookingCreated ==
    \A i \in DOMAIN created :
       /\ created[i].intent.start.date # NULL
       /\ created[i].intent.start.time # NULL
             => fromISO(created[i].intent.start) >= created[i].at

\* C24: a createEvent call that resolves is followed at once by an
\* invalidateCache('events') call, and no invalidateCache call is made by a
\* step in which no createEvent call resolved (the call rejected, or the
\* booking was stopped by a conflict or by the validation).
InvalidateExactlyAfterCreate ==
    [][LET resolved == \E i \in DOMAIN created :
                          created[i].status = "pending" /\ created'[i].status = "ok"
           entered(c) == /\ calls[c].status # "pending"
                         /\ calls'[c].status = "pending"
                         /\ calls'[c].kind = "invalidate"
                         /\ calls'[c].type = "events"
                         /\ calls'[c].now = now
       IN  /\ resolved => \E c \in CallIds : entered(c)
           /\ (\E c \in CallIds : calls'[c].kind = "invalidate" /\ calls[c] # calls'[c]
                                  /\ calls[c].status # "pending")
                 => resolved
           /\ (\E h \in HandlerIds :
                  /\ handlers[h].pc # handlers'[h].pc
                  /\ handlers'[h].pc \in {"conflict", "invalid", "error", "lost",
                                          "no suggestion", "cancelled"})
                 => calls' = calls /\ memoryCache' = memoryCache]_vars

\* C24 witness: the createEvent call of an accepted suggestion resolved, and
\* an invalidateCache('events') call is awaiting its fetch.
AcceptedThenInvalidating ==
    \E h \in HandlerIds, c \in CallIds :
       /\ handlers[h].kind = "accept"
       /\ handlers[h].pc = "editing"
       /\ created[handlers[h].entry].status = "ok"
       /\ created[handlers[h].entry].intent.start = toISO(Later + UnitsOf(60))
       /\ calls[c].kind = "invalidate"
       /\ calls[c].type = "events"
       /\ calls[c].status = "pending"

----------------------------------------------------------------------------
(* The cron tasks: hourly refresh, morning and afternoon digest *)

MorningLimit == 10       \* slice(0, 10) of the morning digest
AfternoonLimit == 5      \* slice(0, 5) of the afternoon digest

\* The instants of the cron expressions '0 8 * * *' and '0 14 * * *' on the
\* day the process starts.
Eight == Day0 * UnitsOf(24 * 60) + UnitsOf(8 * 60)
Fourteen == Day0 * UnitsOf(24 * 60) + UnitsOf(14 * 60)

\* Whether the cron expression of the task matches the instant t.
Scheduled(task, t) ==
    CASE task = "hourly" -> TimeOf(t) % UnitsOf(60) = 0
      [] task = "morning" -> TimeOf(t) = UnitsOf(8 * 60)
      [] task = "afternoon" -> TimeOf(t) = UnitsOf(14 * 60)

\* An event of the snapshot as the digests read it: start.date of an all-day
\* event, start.dateTime of a timed one (the other is absent, NULL).
DigestEvent(id, date, dateTime) ==
    [id |-> id, start |-> TRUE, date |-> date, dateTime |-> dateTime]
\* An event that has no start at all.
NoStart(id) == [id |-> id, start |-> FALSE, date |-> NULL, dateTime |-> NULL]

\* A card of the board; listName is a sequence of characters, empty when the
\* card has none.
Card(id, listName) == [id |-> id, listName |-> listName]
AFazer == <<"A", " ", "F", "a", "z", "e", "r">>
ToDoList == <<"T", "o", " ", "D", "o">>
TodoList == <<"T", "O", "D", "O">>
Doing == <<"D", "o", "i", "n", "g">>

\* String.prototype.toLowerCase and includes, on the letters of the names.
Lower(ch) ==
    CASE ch = "A" -> "a" [] ch = "D" -> "d" [] ch = "F" -> "f"
      [] ch = "O" -> "o" [] ch = "T" -> "t" [] OTHER -> ch
toLowerCase(text) == [i \in DOMAIN text |-> Lower(text[i])]
includes(text, part) ==
    \E k \in 0 .. Len(text) - Len(part) : SubSeq(text, k + 1, k + Len(part)) = part

\* c.listName && (... includes('a fazer') || includes('to do') || includes('todo'))
IsTodo(c) ==
    /\ c.listName # <<>>
    /\ \/ includes(toLowerCase(c.listName), <<"a", " ", "f", "a", "z", "e", "r">>)
       \/ includes(toLowerCase(c.listName), <<"t", "o", " ", "d", "o">>)
       \/ includes(toLowerCase(c.listName), <<"t", "o", "d", "o">>)

\* slice(0, n)
Slice(list, n) == SubSeq(list, 1, IF Len(list) < n THEN Len(list) ELSE n)
More(list, n) == IF Len(list) > n THEN Len(list) - n ELSE 0

Ids(list) == [i \in DOMAIN list |-> list[i].id]

\* The text of a digest, by what it lists: the events, the tasks and the
\* cards shown, how many more tasks and cards it says there are, and whether
\* it says that nothing is pending.  (The closing phrase is drawn at random
\* and is left out.)
Message(task, events, tasks, moreTasks, cards, moreCards, free) ==
    [task |-> task, events |-> events, tasks |-> tasks, moreTasks |-> moreTasks,
     cards |-> cards, moreCards |-> moreCards, free |-> free]

\* What the code of a digest callback after its await comes to: the message,
\* or a TypeError thrown while it reads the snapshot.
Composed(msg) == [thrown |-> FALSE, msg |-> msg]
Thrown == [thrown |-> TRUE, msg |-> Message("none", <<>>, <<>>, 0, <<>>, 0, FALSE)]

\* The morning callback from `const now` to the message: e.start.dateTime
\* throws for an event without start.
morningDigest(cache, t) ==
    IF \E i \in DOMAIN cache.events : ~cache.events[i].start
    THEN Thrown
    ELSE LET todaysEvents ==
                 SelectSeq(cache.events,
                           LAMBDA e : \/ e.dateTime # NULL /\ DayOf(e.dateTime) = DayOf(t)
                                      \/ e.date # NULL /\ e.date = DayOf(t))
             todoCards == SelectSeq(cache.trelloCards, IsTodo)
         IN  Composed(Message("morning", Ids(todaysEvents),
                              Slice(cache.tasks, MorningLimit),
                              More(cache.tasks, MorningLimit),
                              Ids(Slice(todoCards, MorningLimit)),
                              More(todoCards, MorningLimit),
                              /\ Len(todaysEvents) = 0
                              /\ Len(cache.tasks) = 0
                              /\ Len(cache.trelloCards) = 0))

\* The afternoon callback likewise.  DateTime.fromISO(e.start.date) reads the
\* date in the zone of the host, which is taken to be America/Sao_Paulo.
afternoonDigest(cache, t) ==
    IF \E i \in DOMAIN cache.events : ~cache.events[i].start
    THEN Thrown
    ELSE LET remainingEvents ==
                 SelectSeq(cache.events,
                           LAMBDA e : IF e.date # NULL
                                      THEN DayOf(fromISO(ISO(e.date, NULL))) = DayOf(t)
                                      ELSE e.dateTime # NULL /\ e.dateTime > t)
             todoCards == SelectSeq(cache.trelloCards, IsTodo)
         IN  Composed(Message("afternoon", Ids(remainingEvents),
                              Slice(cache.tasks, AfternoonLimit),
                              More(cache.tasks, AfternoonLimit),
                              Ids(Slice(todoCards, AfternoonLimit)),
                              More(todoCards, AfternoonLimit),
                              /\ Len(remainingEvents) = 0
                              /\ Len(cache.tasks) = 0
                              /\ Len(todoCards) = 0))

digestOf(task, cache, t) ==
    IF task = "morning" THEN morningDigest(cache, t) ELSE afternoonDigest(cache, t)

\* A fan-out that awaits each send in turn and has no catch: it ends at the
\* first recipient whose send fails.
fanOutInTurn(log, msg, failing) ==
    [id \in ChatIds |->
        IF id = "u2" /\ "u1" \in failing
        THEN log[id]
        ELSE Append(log[id], [msg |-> msg, ok |-> id \notin failing])]

\* chatIds.forEach(id => bot.telegram.sendMessage(id, msg, ...).catch(e => { })):
\* one call per recipient; failing are the recipients whose call will reject.
fanOut(log, msg, failing) ==
    [id \in ChatIds |-> Append(log[id], [msg |-> msg, ok |-> id \notin failing])]

\* The clock of the cron tasks moves on to the next instant of the sequence
\* the model follows, once every task scheduled at the present instant has
\* fired; it moves across hours only when no call is in flight.
Pass(clock, tasks) ==
    /\ \E k \in 1 .. Len(clock) - 1 :
          /\ now = clock[k]
          /\ now' = clock[k + 1]
          /\ clock[k + 1] - now > UnitsOf(1) => \A c \in CallIds : Free(c)
    /\ phase = "running"
    /\ \A task \in tasks : Scheduled(task, now) => fired[task] = now
    /\ UNCHANGED <<phase, memoryCache, disk, calls, notifiedEvents, sent, scanAt,
                   conflictCheck, bookingVars, cronVars, utilVars>>

\* An hourly task that is stopped once a refresh has failed.
HourlyCronUntilFailure(c) ==
    /\ phase = "running"
    /\ Scheduled("hourly", now)
    /\ fired["hourly"] # now
    /\ FirstFree(c)
    /\ calls[c].status # "failed"
    /\ fired' = [fired EXCEPT !["hourly"] = now]
    /\ calls' = [calls EXCEPT ![c] = RefreshEntered(now)]
    /\ UNCHANGED <<now, phase, memoryCache, disk, notifiedEvents, sent, scanAt,
                   conflictCheck, bookingVars, digest, delivered, utilVars>>

\* cron.schedule('0 * * * *', () => { refreshDataCache(); }) fires:
\* refreshDataCache runs to its first await in the free slot c.
HourlyCron(c) ==
    /\ phase = "running"
    /\ Scheduled("hourly", now)
    /\ fired["hourly"] # now
    /\ FirstFree(c)
    /\ fired' = [fired EXCEPT !["hourly"] = now]
    /\ calls' = [calls EXCEPT ![c] = RefreshEntered(now)]
    /\ UNCHANGED <<now, phase, memoryCache, disk, notifiedEvents, sent, scanAt,
                   conflictCheck, bookingVars, digest, delivered, utilVars>>

\* A digest cron fires: the callback calls refreshDataCache, which runs to
\* its first await in the free slot c, and awaits it.
DigestCron(task, c) ==
    /\ phase = "running"
    /\ Scheduled(task, now)
    /\ fired[task] # now
    /\ digest[task].pc # "refreshing"
    /\ FirstFree(c)
    /\ fired' = [fired EXCEPT ![task] = now]
    /\ digest' = [digest EXCEPT ![task] = [pc |-> "refreshing", call |-> c]]
    /\ calls' = [calls EXCEPT ![c] = RefreshEntered(now)]
    /\ UNCHANGED <<now, phase, memoryCache, disk, notifiedEvents, sent, scanAt,
                   conflictCheck, bookingVars, delivered, utilVars>>

\* A digest composed from the snapshot as it was before the last stretch of
\* the refresh.
DigestRefreshEarly(task, r, written, failing) ==
    /\ digest[task].pc = "refreshing"
    /\ Awaiting(digest[task].call, "refresh", calls[digest[task].call].pc)
    /\ LET c == digest[task].call
           step == refreshDataCache(memoryCache, calls[c], r)
           callback == digestOf(task, memoryCache, now)
       IN  /\ memoryCache' = step.cache
           /\ disk' = IF step.save THEN saveCacheToDisk(step.cache, disk, written) ELSE disk
           /\ calls' = [calls EXCEPT ![c] = step.call]
           /\ IF step.call.status = "pending"
              THEN UNCHANGED <<digest, delivered>>
              ELSE /\ digest' = [digest EXCEPT ![task].pc = "done"]
                   /\ delivered' = fanOut(delivered, callback.msg, failing)
    /\ UNCHANGED <<now, phase, notifiedEvents, sent, scanAt, conflictCheck, bookingVars,
                   fired, utilVars>>

\* A fetch of the refreshDataCache invocation a digest callback awaits
\* settles with r.  When that ends the invocation, the callback goes on in
\* the same turn: it composes the message from memoryCache and issues the
\* sends; an error thrown on the way rejects the promise of the callback.
DigestRefresh(task, r, written, failing) ==
    /\ digest[task].pc = "refreshing"
    /\ Awaiting(digest[task].call, "refresh", calls[digest[task].call].pc)
    /\ LET c == digest[task].call
           step == refreshDataCache(memoryCache, calls[c], r)
           callback == digestOf(task, step.cache, now)
       IN  /\ memoryCache' = step.cache
           /\ disk' = IF step.save THEN saveCacheToDisk(step.cache, disk, written) ELSE disk
           /\ calls' = [calls EXCEPT ![c] = step.call]
           /\ IF step.call.status = "pending"
              THEN UNCHANGED <<digest, delivered>>
              ELSE IF step.call.status = "rejected" \/ callback.thrown
                   THEN /\ digest' = [digest EXCEPT ![task].pc = "thrown"]
                        /\ UNCHANGED delivered
                   ELSE /\ digest' = [digest EXCEPT ![task].pc = "done"]
                        /\ delivered' = fanOut(delivered, callback.msg, failing)
    /\ UNCHANGED <<now, phase, notifiedEvents, sent, scanAt, conflictCheck, bookingVars,
                   fired, utilVars>>

\* The snapshot the digests are given: an all-day event of the first day, an
\* event at 9:00 of it, one 30 s after 14:00, one at 9:00 of the next day
\* and an all-day event of the next day.
SnapshotEvents ==
    << DigestEvent("a1", Day0, NULL),
       DigestEvent("m1", NULL, Eight + UnitsOf(60)),
       DigestEvent("f1", NULL, Fourteen + 1),
       DigestEvent("n1", NULL, Eight + UnitsOf(25 * 60)),
       DigestEvent("a2", Day0 + 1, NULL) >>

\* A list one of whose events has no start.
BrokenEvents == << DigestEvent("a1", Day0, NULL), NoStart("b1") >>

ManyTasks == <<"t1", "t2", "t3", "t4", "t5", "t6", "t7", "t8", "t9", "t10", "t11">>

\* Thirteen cards; the third is in the list "Doing", the fifth has no list
\* name, the seventh and eighth are in "TODO" and "To Do", the others in
\* "A Fazer".
ManyCards ==
    [i \in 1 .. 13 |->
        Card(i, CASE i = 3 -> Doing [] i = 5 -> <<>> [] i = 7 -> TodoList
                  [] i = 8 -> ToDoList [] OTHER -> AFazer)]

\* What the fetch a refresh awaits at pc may settle with.
DigestOutcomes(pc) ==
    CASE pc = "events" -> Outcomes({SnapshotEvents, BrokenEvents})
      [] pc = "tasks" -> Outcomes({<<>>, ManyTasks})
      [] pc = "trello" -> Outcomes({<<>>, ManyCards})

\* The instants the clock of the digests goes through: around 8:00 and 14:00
\* of the first day, and 8:00 of the next.
DigestClock ==
    <<Eight - 1, Eight, Eight + 1, Fourteen, Fourteen + 1, Eight + UnitsOf(24 * 60)>>

\* The process starts 30 s before 8:00 with a snapshot saved an hour earlier.
InitCron ==
    /\ now = Eight - 1
    /\ phase = "constructed"
    /\ memoryCache = EmptyCache
    /\ disk = File([events |-> SnapshotEvents, tasks |-> <<"t1">>,
                    trelloCards |-> <<Card(1, AFazer)>>,
                    lastUpdate |-> Eight - 1 - UnitsOf(60)])
    /\ calls = [c \in CallIds |-> IdleCall]
    /\ notifiedEvents = {}
    /\ sent = [p \in ChatIds \X EventIds |-> <<>>]
    /\ scanAt = NULL
    /\ conflictCheck = NoCheck
    /\ session = NoSession
    /\ handlers = [h \in HandlerIds |-> IdleHandler]
    /\ created = <<>>
    /\ fired = [task \in Tasks |-> NULL]
    /\ digest = [task \in DigestTasks |-> IdleDigest]
    /\ delivered = [id \in ChatIds |-> <<>>]
    /\ retry = IdleRetry
    /\ limiter = NewLimiter
    /\ batch = IdleBatch

DigestNext ==
    \/ InitScheduler
    \/ Pass(DigestClock, DigestTasks)
    \/ \E task \in DigestTasks : DigestCron(task, 1)
    \/ \E task \in DigestTasks, failing \in SUBSET ChatIds :
          /\ digest[task].pc = "refreshing"
          /\ \E r \in DigestOutcomes(calls[digest[task].call].pc) :
                DigestRefresh(task, r, "complete", failing)

SpecDigest == InitCron /\ [][DigestNext]_vars

AfternoonDigestContent ==
    [][\A id \in ChatIds :
          /\ Len(delivered'[id]) > Len(delivered[id])
          /\ delivered'[id][Len(delivered'[id])].msg.task = "afternoon"
          => LET msg == delivered'[id][Len(delivered'[id])].msg
                 snapshot == memoryCache'
                 listed(e) == \/ e.date = DayOf(now)
                              \/ e.dateTime # NULL /\ e.dateTime > now
                 todo == SelectSeq(snapshot.trelloCards,
                            LAMBDA c : \E name \in {AFazer, ToDoList, TodoList} :
                                          c.listName = name)
                 upTo(list) == IF Len(list) < 10 THEN Len(list) ELSE 10
             IN  /\ msg.events = Ids(SelectSeq(snapshot.events, listed))
                 /\ msg.tasks = SubSeq(snapshot.tasks, 1, upTo(snapshot.tasks))
                 /\ msg.cards = Ids(SubSeq(todo, 1, upTo(todo)))]_vars

\* C27: the sends of a digest do not depend on one another.  Whichever of
\* them fail, every recipient is sent the message of the digest in the step
\* that composes it, the callback ends normally, and no send is repeated: a
\* recipient gets a message only in the step in which a digest callback ends.
FanOutIndependent ==
    [][/\ \A task \in DigestTasks :
             digest[task].pc = "refreshing" /\ digest'[task].pc = "done"
                => \A id \in ChatIds, other \in ChatIds :
                      /\ Len(delivered'[id]) = Len(delivered[id]) + 1
                      /\ SubSeq(delivered'[id], 1, Len(delivered[id])) = delivered[id]
                      /\ delivered'[id][Len(delivered'[id])].msg
                            = delivered'[other][Len(delivered'[other])].msg
       /\ \A id \in ChatIds :
             delivered'[id] # delivered[id]
                => /\ Len(delivered'[id]) = Len(delivered[id]) + 1
                   /\ \E task \in DigestTasks :
                         digest[task].pc = "refreshing" /\ digest'[task].pc = "done"]_vars

\* C27 witness: the send of the morning digest to the first recipient failed,
\* the second recipient was sent the same message, and the callback ended
\* normally.
OneSendFailed ==
    /\ digest["morning"].pc = "done"
    /\ Len(delivered["u1"]) = 1
    /\ Len(delivered["u2"]) = 1
    /\ ~delivered["u1"][1].ok
    /\ delivered["u2"][1].ok
    /\ delivered["u2"][1].msg = delivered["u1"][1].msg

\* C28: an error thrown while a digest is composed does not leave the
\* callback of the digest.
DigestErrorCaught ==
    \A task \in DigestTasks : digest[task].pc # "thrown"

\* C29: refreshDataCache and invalidateCache never throw to their caller.
\* Whatever fetches fail and however far the write of the file gets, an
\* invocation is either awaiting a fetch or has returned normally ("done", or
\* "failed" when its catch block logged the error), the process goes on, and
\* a periodic task can call refreshDataCache again as soon as the slot of the
\* model is free.
NothingFatal ==
    /\ phase \in {"constructed", "running"}
    /\ \A c \in CallIds : calls[c].status \in {"idle", "pending", "done", "failed"}
    /\ phase = "running" /\ Free(1) => ENABLED RefreshCall(1)

\* C29 witness: an invalidateCache('all') call, the one of the handler of
\* 'Atualizar Tudo', has returned normally although the write of the file
\* broke off.
ReturnedAfterTornWrite ==
    /\ phase = "running"
    /\ calls[1].kind = "invalidate"
    /\ calls[1].type = "all"
    /\ calls[1].status = "done"
    /\ disk.state = "truncated"

----------------------------------------------------------------------------
(* The hourly refresh over three hours *)

HourlyClock == <<Eight - 1, Eight, Eight + UnitsOf(60), Eight + UnitsOf(2 * 60)>>

\* The hourly task fires at 8:00, 9:00 and 10:00; each fetch of its refresh
\* resolves or rejects, and the write of the file gets as far as it gets.
HourlyNext ==
    \/ InitScheduler
    \/ Pass(HourlyClock, {"hourly"})
    \/ HourlyCron(1)
    \/ \E r \in DigestOutcomes("events") : RefreshEvents(1, r)
    \/ \E r \in DigestOutcomes("tasks") : RefreshTasks(1, r)
    \/ \E r \in DigestOutcomes("trello"), written \in WriteOutcomes : RefreshCards(1, r, written)

SpecHourly == InitCron /\ [][HourlyNext]_vars

----------------------------------------------------------------------------
(* retry.js: withRetry, isRetryableError, withGoogleRetry *)

maxRetries == 3
initialDelay == 1000
maxDelay == 10000
backoffMultiplier == 2

\* The errors a call of the Google API throws.  code "429" stands for the
\* number 429; message is the phrase isRetryableError looks for that the
\* message contains, "other" when it contains none of them.
Errors ==
    { Error("ECONNRESET", 0, "other"), Error("ETIMEDOUT", 0, "other"),
      Error("429", 0, "other"), Error("none", 429, "other"),
      Error("none", 503, "other"), Error("none", 403, "quota"),
      Error("none", 404, "other"), Error("none", 600, "other"),
      Error("EACCES", 0, "other") }

\* fn() rejected with the error e.
Failure(e) == [ok |-> FALSE, value |-> <<>>, error |-> e]

isRetryableError(error) ==
    \/ error.code \in {"ECONNRESET", "ETIMEDOUT", "ECONNREFUSED", "ENOTFOUND"}
    \/ error.status = 429
    \/ error.code = "429"
    \/ error.status >= 500 /\ error.status < 600
    \/ error.message \in {"quota", "rate limit", "temporarily unavailable"}

\* withRetry runs to its first await fn().
withRetryEntered == [IdleRetry EXCEPT !.pc = "fn", !.attempt = 1, !.delay = initialDelay]

\* A loop that does not ask shouldRetry.
withRetryWhatever(r, o, max, shouldRetry) ==
    IF o.ok
    THEN [r EXCEPT !.pc = "returned", !.result = o.value]
    ELSE LET caught == [r EXCEPT !.errors = Append(@, o.error)]
         IN  IF r.attempt = max
             THEN [caught EXCEPT !.pc = "thrown", !.thrown = o.error]
             ELSE [caught EXCEPT !.pc = "sleep"]

\* The body of the loop of withRetry from the moment await fn() settles
\* with o: return the result, or catch the error and throw it on when this
\* was the last attempt or shouldRetry refuses it, or go to sleep.
\* shouldRetry is the value of options.shouldRetry(error).
withRetry(r, o, max, shouldRetry) ==
    IF o.ok
    THEN [r EXCEPT !.pc = "returned", !.result = o.value]
    ELSE LET caught == [r EXCEPT !.errors = Append(@, o.error)]
         IN  IF r.attempt = max \/ ~shouldRetry
             THEN [caught EXCEPT !.pc = "thrown", !.thrown = o.error]
             ELSE [caught EXCEPT !.pc = "sleep"]

\* await sleep(delay) is over: the next delay is computed and the loop goes
\* to its next attempt.
sleep(r) ==
    [r EXCEPT !.pc = "fn", !.attempt = @ + 1,
              !.delay = IF @ * backoffMultiplier < maxDelay THEN @ * backoffMultiplier
                        ELSE maxDelay]

withGoogleRetry(r, o) == withRetry(r, o, maxRetries, ~o.ok /\ isRetryableError(o.error))

\* What the caller of listEvents gets.
Answer(r) == IF r.pc = "returned" THEN Resolved(r.result) ELSE Rejected

\* googleService.listEvents(...) is called by the call in slot c, which is
\* at its fetch of the events.
ListEvents(c) ==
    /\ phase = "running"
    /\ calls[c].status = "pending"
    /\ calls[c].pc = "events"
    /\ retry.pc = "idle"
    /\ retry' = withRetryEntered
    /\ UNCHANGED <<now, phase, memoryCache, disk, calls, notifiedEvents, sent, scanAt,
                 conflictCheck, bookingVars, cronVars, limiter, batch>>

\* calendar.events.list settles with o.
Attempt(o) ==
    /\ retry.pc = "fn"
    /\ retry' = withGoogleRetry(retry, o)
    /\ UNCHANGED <<now, phase, memoryCache, disk, calls, notifiedEvents, sent, scanAt,
                 conflictCheck, bookingVars, cronVars, limiter, batch>>

Slept ==
    /\ retry.pc = "sleep"
    /\ retry' = sleep(retry)
    /\ UNCHANGED <<now, phase, memoryCache, disk, calls, notifiedEvents, sent, scanAt,
                 conflictCheck, bookingVars, cronVars, limiter, batch>>

\* One refreshDataCache or invalidateCache('events') whose fetch of the
\* events is one call of listEvents, every attempt of which resolves or
\* throws one of the errors.
RetryNext ==
    \/ InitScheduler
    \/ retry.pc = "idle" /\ RefreshCall(1)
    \/ retry.pc = "idle" /\ InvalidateCall(1, "events", "complete")
    \/ ListEvents(1)
    \/ \E o \in { Resolved(v) : v \in FewEventLists } \cup { Failure(e) : e \in Errors } :
           Attempt(o)
    \/ Slept
    \/ retry.pc \in {"returned", "thrown"} /\ RefreshEvents(1, Answer(retry))
    \/ retry.pc \in {"returned", "thrown"} /\ InvalidateEvents(1, Answer(retry), "complete")
    \/ \E r \in Outcomes(TaskLists) : RefreshTasks(1, r)
    \/ \E r \in Outcomes(CardLists) : RefreshCards(1, r, "complete")

SpecRetry == Init /\ [][RetryNext]_vars

\* The failures the claim calls transient: network errors, HTTP 429 and
\* 5xx, and the quota messages of the Google API.
Transient ==
    { Error("ECONNRESET", 0, "other"), Error("ETIMEDOUT", 0, "other"),
      Error("429", 0, "other"), Error("none", 429, "other"),
      Error("none", 503, "other"), Error("none", 403, "quota") }

\* C31: one listEvents call makes at most 3 attempts; the first attempt that
\* succeeds ends it with that attempt's result, after transient errors only;
\* an error that is not transient is thrown on in the attempt in which it
\* occurred, and the third error is thrown on whatever it is; nothing is
\* attempted after the call has returned or thrown.  The refresh and the
\* invalidation pass each of their fetches once: a call that goes on goes on
\* to a later fetch, and a fetch that failed is not repeated.
RetryBounded ==
    /\ [](/\ retry.attempt <= 3
          /\ retry.pc \in {"fn", "sleep"}
                => /\ Len(retry.errors) = retry.attempt - (IF retry.pc = "fn" THEN 1 ELSE 0)
                   /\ \A n \in DOMAIN retry.errors : retry.errors[n] \in Transient
          /\ retry.pc = "returned"
                => /\ Len(retry.errors) = retry.attempt - 1
                   /\ \A n \in DOMAIN retry.errors : retry.errors[n] \in Transient
          /\ retry.pc = "thrown"
                => /\ Len(retry.errors) = retry.attempt
                   /\ retry.thrown = retry.errors[retry.attempt]
                   /\ retry.attempt = 3 \/ retry.thrown \notin Transient
                   /\ \A n \in 1 .. retry.attempt - 1 : retry.errors[n] \in Transient)
    /\ [][/\ retry.pc \in {"returned", "thrown"} => retry' = retry
          /\ retry.pc = "fn" /\ retry'.pc = "returned"
                => retry'.attempt = retry.attempt /\ retry'.errors = retry.errors
          /\ retry.pc = "fn" /\ retry'.pc = "thrown" /\ retry'.thrown \notin Transient
                => retry'.attempt = retry.attempt
          /\ calls[1].status = "pending" /\ calls'[1] # calls[1]
                => \/ calls'[1].status \in {"done", "failed"}
                   \/ /\ calls'[1].status = "pending"
                      /\ StageIndex(calls'[1].pc) > StageIndex(calls[1].pc)]_vars

\* C31 witness: the third attempt of listEvents failed with a transient
\* error after two transient errors, listEvents threw it, and the refresh
\* that had called it has failed at its fetch of the events.
ThirdFailureRethrown ==
    /\ retry.pc = "thrown"
    /\ retry.attempt = 3
    /\ retry.thrown \in Transient
    /\ calls[1].kind = "refresh"
    /\ calls[1].status = "failed"
    /\ calls[1].pc = "events"

----------------------------------------------------------------------------
(* rateLimiter.js: RateLimiter.check, cleanup *)

MaxChecks == 6       \* check calls answered while the model runs
maxRequests == 2     \* this.maxRequests (the configuration has 10)

\* this.windowMs (one minute), this.blockDurationMs (half a minute) and
\* INACTIVE_THRESHOLD (7 days) in units of the clock.
windowMs == UnitsOf(1)
blockDurationMs == UnitsOf(1) \div 2
INACTIVE_THRESHOLD == UnitsOf(7 * 24 * 60)

\* The answer of check: message is "wait" for the answer of the blocked
\* branch, "too many" for the one of the branch that blocks.
CheckAnswer(userId, t, allowed, message) ==
    [user |-> userId, at |-> t, allowed |-> allowed, message |-> message]

\* timestamps.filter(timestamp => now - timestamp < this.windowMs)
RECURSIVE InsideWindow(_, _)
InsideWindow(requests, t) ==
    IF requests = <<>> THEN <<>>
    ELSE LET rest == InsideWindow(Tail(requests), t)
         IN  IF t - Head(requests) < windowMs THEN <<Head(requests)>> \o rest ELSE rest

\* A check that denies at the limit without blocking.
checkWithoutBlock(lim, userId, t) ==
    LET userData == lim.users[userId]
        requests == InsideWindow(userData.requests, t)
        limit == Len(requests) >= maxRequests
    IN  IF userData.blockedUntil > t
        THEN [users |-> [lim.users EXCEPT ![userId].known = TRUE],
              answers |-> Append(lim.answers, CheckAnswer(userId, t, FALSE, "wait"))]
        ELSE [users |-> [lim.users EXCEPT ![userId] =
                            [known |-> TRUE,
                             requests |-> IF limit THEN requests ELSE Append(requests, t),
                             blockedUntil |-> userData.blockedUntil]],
              answers |-> Append(lim.answers,
                                 CheckAnswer(userId, t, ~limit,
                                             IF limit THEN "too many" ELSE "none"))]

\* check(userId) at the instant t: the user is entered if unknown; a blocked
\* user is denied; else the requests outside the window are dropped, and the
\* user is blocked and denied when maxRequests remain, else the request is
\* recorded and allowed.
check(lim, userId, t) ==
    LET userData == lim.users[userId]
        requests == InsideWindow(userData.requests, t)
    IN  IF userData.blockedUntil > t
        THEN [users |-> [lim.users EXCEPT ![userId].known = TRUE],
              answers |-> Append(lim.answers, CheckAnswer(userId, t, FALSE, "wait"))]
        ELSE IF Len(requests) >= maxRequests
        THEN [users |-> [lim.users EXCEPT ![userId] =
                            [known |-> TRUE, requests |-> requests,
                             blockedUntil |-> t + blockDurationMs]],
              answers |-> Append(lim.answers, CheckAnswer(userId, t, FALSE, "too many"))]
        ELSE [users |-> [lim.users EXCEPT ![userId] =
                            [known |-> TRUE, requests |-> Append(requests, t),
                             blockedUntil |-> userData.blockedUntil]],
              answers |-> Append(lim.answers, CheckAnswer(userId, t, TRUE, "none"))]

\* cleanup(): the users without requests, or whose last request is more than
\* 7 days old, are deleted unless blocked.
cleanup(lim, t) ==
    LET lastRequest(userData) ==
            IF userData.requests = <<>> THEN 0
            ELSE userData.requests[Len(userData.requests)]
        deleted(userData) ==
            /\ userData.known
            /\ userData.requests = <<>> \/ (t - lastRequest(userData)) > INACTIVE_THRESHOLD
            /\ userData.blockedUntil < t
    IN  [lim EXCEPT !.users = [u \in UserIds |->
                                  IF deleted(lim.users[u]) THEN NoUser ELSE lim.users[u]]]

\* The rate-limiting middleware calls rateLimiter.check(userId).
Check(userId) ==
    /\ Len(limiter.answers) < MaxChecks
    /\ limiter' = check(limiter, userId, now)
    /\ UNCHANGED <<now, phase, memoryCache, disk, calls, notifiedEvents, sent, scanAt,
                 conflictCheck, bookingVars, cronVars, retry, batch>>

\* The interval of the constructor fires.
Cleanup ==
    /\ limiter' = cleanup(limiter, now)
    /\ UNCHANGED <<now, phase, memoryCache, disk, calls, notifiedEvents, sent, scanAt,
                 conflictCheck, bookingVars, cronVars, retry, batch>>

LimiterNext ==
    \/ Tick
    \/ \E u \in UserIds : Check(u)
    \/ Cleanup

SpecLimiter == Init /\ [][LimiterNext]_vars

\* The answers before the k-th that allowed a request of the user within the
\* window that ends at t, and whether one of them blocked the user beyond t.
AllowedRecently(u, t, k) ==
    { n \in 1 .. k - 1 : /\ limiter.answers[n].user = u
                         /\ limiter.answers[n].allowed
                         /\ t - limiter.answers[n].at < 2 }

BlockedAt(u, t, k) ==
    \E n \in 1 .. k - 1 : /\ limiter.answers[n].user = u
                          /\ limiter.answers[n].message = "too many"
                          /\ t < limiter.answers[n].at + 1

\* C32: for each user, no window of windowMs holds more than maxRequests
\* allowed checks; a check is allowed exactly when the user's own earlier
\* checks left no block in force and fewer than maxRequests allowed checks in
\* the window, and the unblocked check that finds the limit reached is the
\* one that blocks; the requests kept for a user are instants of allowed
\* checks only; a check changes nothing kept for another user.
RateLimited ==
    /\ [](/\ \A u \in UserIds, t \in T0 - 2 .. T0 + MaxTicks :
                Cardinality({ n \in DOMAIN limiter.answers :
                                 /\ limiter.answers[n].user = u
                                 /\ limiter.answers[n].allowed
                                 /\ limiter.answers[n].at >= t
                                 /\ limiter.answers[n].at < t + 2 }) <= maxRequests
          /\ \A k \in DOMAIN limiter.answers :
                LET a == limiter.answers[k]
                    free == ~BlockedAt(a.user, a.at, k)
                    recent == Cardinality(AllowedRecently(a.user, a.at, k))
                IN  /\ a.allowed <=> free /\ recent < maxRequests
                    /\ a.message = "too many" <=> free /\ recent >= maxRequests
          /\ \A u \in UserIds :
                \A i \in DOMAIN limiter.users[u].requests :
                    \E n \in DOMAIN limiter.answers :
                        /\ limiter.answers[n] =
                               CheckAnswer(u, limiter.users[u].requests[i], TRUE, "none"))
    /\ [][\A u \in UserIds :
             Len(limiter'.answers) > Len(limiter.answers)
             /\ limiter'.answers[Len(limiter'.answers)].user # u
                => limiter'.users[u] = limiter.users[u]]_vars

\* C32 witness: u1 was allowed maxRequests checks, the next one found the
\* limit reached and blocked u1, a check of u1 during the block was denied,
\* and a check of u2 at that instant was allowed.
DeniedWhileBlocked ==
    \E k \in DOMAIN limiter.answers, m \in DOMAIN limiter.answers :
        /\ k < m
        /\ limiter.answers[k] = CheckAnswer("u1", T0, FALSE, "too many")
        /\ limiter.answers[m] = CheckAnswer("u1", T0, FALSE, "wait")
        /\ Cardinality(AllowedRecently("u1", T0, k)) = maxRequests
        /\ \E n \in DOMAIN limiter.answers :
               n > m /\ limiter.answers[n] = CheckAnswer("u2", T0, TRUE, "none")

----------------------------------------------------------------------------
(* batchProcessor.js: batchProcess *)

MaxItems == 4        \* items handed to batchProcess
BatchSize == 2       \* batchSize (the callers pass 10)

\* items.slice(i, i + batchSize)
BatchAt(items, i) ==
    SubSeq(items, i + 1, IF i + BatchSize < Len(items) THEN i + BatchSize ELSE Len(items))

Items(list) == { list[n] : n \in DOMAIN list }

\* The head of an iteration of the loop: the test of the for statement, and
\* Promise.all(batch.map(fn)), which calls fn for every item of the batch.
startBatch(b) ==
    IF b.i < Len(b.items)
    THEN LET flight == b.flight \cup Items(BatchAt(b.items, b.i))
         IN  [b EXCEPT !.pc = "all", !.started = Append(@, b.i), !.flight = flight,
                       !.held = {},
                       !.peak = IF Cardinality(flight) > @ THEN Cardinality(flight) ELSE @]
    ELSE [b EXCEPT !.pc = "returned"]

\* The end of an iteration: the delay when a batch is left, else the loop
\* ends and results is returned.
endBatch(b) ==
    IF b.i + BatchSize < Len(b.items)
    THEN [b EXCEPT !.pc = "delay"]
    ELSE [b EXCEPT !.pc = "returned"]

\* batchProcess(items, fn, batchSize, delayMs) runs to its first await.
batchProcessEntered(items) == startBatch([IdleBatch EXCEPT !.items = items])

\* A batchProcess without the try around Promise.all.
settledStopping(b, item, ok) ==
    LET landed == [b EXCEPT !.flight = @ \ {item},
                            !.failed = IF ok THEN @ ELSE @ \cup {item}]
        awaited == BatchAt(b.items, b.i)
    IN  IF b.pc # "all" \/ item \notin Items(awaited) THEN landed
        ELSE IF ~ok THEN [landed EXCEPT !.pc = "rejected"]
        ELSE IF Items(awaited) \subseteq landed.held \cup {item}
        THEN endBatch([landed EXCEPT !.results = @ \o awaited, !.held = {}])
        ELSE [landed EXCEPT !.held = @ \cup {item}]

\* The invocation of fn for the item settles.  Promise.all of the batch
\* awaited rejects at its first rejection and resolves, with the results in
\* the order of the batch, when the last of its invocations has resolved;
\* the catch logs and the loop goes on.  An invocation of a batch that is no
\* longer awaited changes nothing in batchProcess.
settled(b, item, ok) ==
    LET landed == [b EXCEPT !.flight = @ \ {item},
                            !.failed = IF ok THEN @ ELSE @ \cup {item}]
        awaited == BatchAt(b.items, b.i)
    IN  IF b.pc # "all" \/ item \notin Items(awaited) THEN landed
        ELSE IF ~ok THEN endBatch([landed EXCEPT !.held = {}])
        ELSE IF Items(awaited) \subseteq landed.held \cup {item}
        THEN endBatch([landed EXCEPT !.results = @ \o awaited, !.held = {}])
        ELSE [landed EXCEPT !.held = @ \cup {item}]

\* The delay between two batches is over: i += batchSize and the next
\* iteration begins.
delayed(b) == startBatch([b EXCEPT !.i = @ + BatchSize])

\* executeConfirmedAction calls batchProcess with n items; the result of fn
\* for an item is written as the item.
BatchProcess(n) ==
    /\ batch.pc = "idle"
    /\ batch' = batchProcessEntered([k \in 1 .. n |-> k])
    /\ UNCHANGED <<now, phase, memoryCache, disk, calls, notifiedEvents, sent, scanAt,
                 conflictCheck, bookingVars, cronVars, retry, limiter>>

FnSettled(item, ok) ==
    /\ item \in batch.flight
    /\ batch' = settled(batch, item, ok)
    /\ UNCHANGED <<now, phase, memoryCache, disk, calls, notifiedEvents, sent, scanAt,
                 conflictCheck, bookingVars, cronVars, retry, limiter>>

Delayed ==
    /\ batch.pc = "delay"
    /\ batch' = delayed(batch)
    /\ UNCHANGED <<now, phase, memoryCache, disk, calls, notifiedEvents, sent, scanAt,
                 conflictCheck, bookingVars, cronVars, retry, limiter>>

BatchNext ==
    \/ \E n \in 0 .. MaxItems : BatchProcess(n)
    \/ \E item \in 1 .. MaxItems, ok \in BOOLEAN : FnSettled(item, ok)
    \/ Delayed

SpecBatch == Init /\ [][BatchNext]_vars

\* The results of the batches from position i on none of whose items failed.
RECURSIVE SuccessfulFrom(_, _, _)
SuccessfulFrom(items, failed, i) ==
    IF i >= Len(items) THEN <<>>
    ELSE (IF Items(BatchAt(items, i)) \cap failed = {} THEN BatchAt(items, i) ELSE <<>>)
         \o SuccessfulFrom(items, failed, i + BatchSize)

\* C33: batchProcess never rejects; the batches are started in order, each
\* one whatever became of those before it, and all of them by the time it
\* returns; a batch with a failed item contributes nothing and the list
\* returned holds the results of the other batches in item order.
BatchContinues ==
    /\ batch.pc \in {"idle", "all", "delay", "returned"}
    /\ \A k \in DOMAIN batch.started : batch.started[k] = (k - 1) * BatchSize
    /\ batch.pc = "returned"
          => /\ Len(batch.started) * BatchSize >= Len(batch.items)
             /\ (Len(batch.started) - 1) * BatchSize < Len(batch.items)
                   \/ batch.items = <<>>
             /\ batch.results = SuccessfulFrom(batch.items, batch.failed, 0)

\* C33 witness: an item of the first batch failed, the second batch was
\* started all the same, and batchProcess returned the results of the second
\* batch alone.
ReturnedAfterFailedBatch ==
    /\ batch.pc = "returned"
    /\ Len(batch.items) = 2 * BatchSize
    /\ 1 \in batch.failed
    /\ batch.results = BatchAt(batch.items, BatchSize)
    /\ batch.flight = {}

\* C39: never more than batchSize invocations of fn are in flight together,
\* and a batch is started only when no invocation is in flight.
BatchSizeRespected ==
    /\ batch.peak <= BatchSize
    /\ Cardinality(batch.flight) <= BatchSize
    /\ batch.pc = "delay" => batch.flight = {}

----------------------------------------------------------------------------
(* checkConflicts when the fetch of the day fails *)

\* C35: checkConflicts always returns; when its fetch of the day rejected
\* it returns the no-conflict result, and processIntent goes on as for a free
\* day: the session is left alone, the booking is validated, and createEvent
\* is called for it if the validation accepts it.
FailsOpen ==
    [][/\ conflictCheck.status = "fetching" /\ conflictCheck' # conflictCheck
             => /\ conflictCheck'.status = "returned"
                /\ ~conflictCheck'.settled.ok => conflictCheck'.result = NoConflict
       /\ \A h \in HandlerIds :
             /\ handlers[h].pc = "checking"
             /\ handlers'[h].pc # "checking"
             /\ conflictCheck.fetches = 1
             /\ ~conflictCheck.settled.ok
             => /\ session' = session
                /\ IF validateSchedulingContext(handlers[h].intent, now).isValid
                   THEN /\ handlers'[h].pc = "creating"
                        /\ created' = Append(created,
                                             CreateCall(handlers[h].intent, "intent", now))
                   ELSE /\ handlers'[h].pc = "invalid"
                        /\ created' = created]_vars

\* C35 witness: the fetch of the day of the half-hour booking rejected, and
\* createEvent was called for the booking.
CreatedAfterFailedFetch ==
    /\ conflictCheck.status = "returned"
    /\ conflictCheck.fetches = 1
    /\ ~conflictCheck.settled.ok
    /\ conflictCheck.eventData.end = toISO(Later + UnitsOf(30))
    /\ \E i \in DOMAIN created :
          /\ created[i].via = "intent"
          /\ created[i].intent = conflictCheck.eventData

----------------------------------------------------------------------------
(* A refresh overlapped by an invalidation of the events *)

\* What the calendar holds when the refresh fetches it, and what it holds
\* after the booking that is followed by invalidateCache('events').
Older == <<Timed("e1", T0 + 29)>>
Newer == <<Timed("e1", T0 + 29), Timed("e2", T0 + 30)>>

\* A refreshDataCache is called (at the start, or later) and, while it is
\* pending, invalidateCache('events'): the fetch of the refresh is issued
\* first and gets the older list, the fetch of the invalidation is issued
\* after it and gets the newer one; the fetches settle in any order.
OverlapNext ==
    \/ Tick
    \/ InitScheduler
    \/ calls[1].kind = "none" /\ RefreshCall(1)
    \/ calls[2].kind = "none" /\ InvalidateCall(2, "events", "complete")
    \/ \E r \in Outcomes({Older}) : RefreshEvents(1, r)
    \/ \E r \in Outcomes(TaskLists) : RefreshTasks(1, r)
    \/ \E r \in Outcomes(CardLists) : RefreshCards(1, r, "complete")
    \/ \E r \in Outcomes({Newer}) : InvalidateEvents(2, r, "complete")

SpecOverlap == Init /\ [][OverlapNext]_vars

\* C34: when the refresh and the invalidation of the events that overlapped
\* it have both finished, the snapshot holds the events of the fetch issued
\* last, the one of the invalidation.
NoLostUpdate ==
    /\ calls[1].kind = "refresh"
    /\ calls[1].status = "done"
    /\ calls[2].kind = "invalidate"
    /\ calls[2].status = "done"
    => memoryCache.events = Newer

----------------------------------------------------------------------------
(* The scan under an exact cadence of one minute *)

MaxMinutes == 4      \* minutes the clock of the cadence runs

\* The clock runs from T0, in steps of 30 s, over MaxMinutes minutes.
CadenceEnd == T0 + UnitsOf(MaxMinutes)

\* Whether the cron expression '* * * * *' matches the instant t.
FullMinute(t) == TimeOf(t) % UnitsOf(1) = 0

\* The snapshots: timed events that start 16.5 and 17 minutes after T0,
\* alone, together, or after an all-day event.
CadenceSnapshots ==
    { <<Timed("e1", T0 + 33)>>, <<Timed("e1", T0 + 34)>>,
      <<Timed("e1", T0 + 33), Timed("e2", T0 + 34)>>,
      <<AllDay("e2"), Timed("e1", T0 + 34)>> }

\* The process starts with a file of the last half minute.
InitCadence ==
    /\ now = T0
    /\ phase = "constructed"
    /\ memoryCache = EmptyCache
    /\ disk \in { File([events |-> events, tasks |-> <<"t1">>, trelloCards |-> <<>>,
                        lastUpdate |-> T0 - 1]) : events \in CadenceSnapshots }
    /\ calls = [c \in CallIds |-> IdleCall]
    /\ notifiedEvents = {}
    /\ sent = [p \in ChatIds \X EventIds |-> <<>>]
    /\ scanAt = NULL
    /\ conflictCheck = NoCheck
    /\ session = NoSession
    /\ handlers = [h \in HandlerIds |-> IdleHandler]
    /\ created = <<>>
    /\ fired = [task \in Tasks |-> NULL]
    /\ digest = [task \in DigestTasks |-> IdleDigest]
    /\ delivered = [id \in ChatIds |-> <<>>]
    /\ retry = IdleRetry
    /\ limiter = NewLimiter
    /\ batch = IdleBatch

\* The scan fires at the full minute.
MinuteCron(failing) ==
    /\ FullMinute(now)
    /\ Scan(failing)

\* Half a minute passes, once the scan of a full minute has run.
HalfMinute ==
    /\ phase = "running"
    /\ now < CadenceEnd
    /\ FullMinute(now) => scanAt = now
    /\ now' = now + 1
    /\ UNCHANGED <<phase, memoryCache, disk, calls, notifiedEvents, sent, scanAt,
                   conflictCheck, bookingVars, cronVars, utilVars>>

CadenceNext ==
    \/ InitScheduler
    \/ HalfMinute
    \/ \E failing \in SUBSET (ChatIds \X EventIds) : MinuteCron(failing)

SpecCadence == InitCadence /\ [][CadenceNext]_vars

\* The full minutes up to now at which the scan has run and found the start
\* between 14 and 15.5 minutes away.
TicksInWindow(start) ==
    { t \in T0 .. now : /\ FullMinute(t)
                        /\ t < now \/ scanAt = now
                        /\ start - t >= 28
                        /\ start - t <= 31 }

\* C36: with a scan at every full minute and the event in the snapshot all
\* the time, a tick falls into the window of the event, the first such tick
\* sends one reminder to every recipient, and no other tick sends one: once
\* the window is behind, exactly one reminder was sent.
ExactlyOneReminder ==
    \A n \in DOMAIN memoryCache.events, id \in ChatIds :
       LET event == memoryCache.events[n]
           ticks == TicksInWindow(event.dateTime)
           reminders == sent[<<id, event.id>>]
       IN  event.dateTime # NULL
           => /\ ticks = {} => reminders = <<>>
              /\ ticks # {}
                    => /\ Len(reminders) = 1
                       /\ reminders[1].at \in ticks
                       /\ \A t \in ticks : reminders[1].at <= t
              /\ event.dateTime - now < 28 => Len(reminders) = 1

\* C36 witness: two ticks fell into the window of the event that starts 17
\* minutes after T0, and one reminder each was sent, at the first of them.
SecondTickSilent ==
    /\ now = T0 + 6
    /\ scanAt = now
    /\ \E n \in DOMAIN memoryCache.events :
          memoryCache.events[n] = Timed("e1", T0 + 34)
    /\ \A id \in ChatIds :
          /\ Len(sent[<<id, "e1">>]) = 1
          /\ sent[<<id, "e1">>][1].at = T0 + 4

----------------------------------------------------------------------------
(* The load of a document that lacks properties *)

\* The document with the properties named in lacks left out.
Partial(doc, lacks) ==
    IF lacks = {} THEN doc
    ELSE [events |-> IF "events" \in lacks THEN <<>> ELSE doc.events,
          tasks |-> IF "tasks" \in lacks THEN <<>> ELSE doc.tasks,
          trelloCards |-> IF "trelloCards" \in lacks THEN <<>> ELSE doc.trelloCards,
          lastUpdate |-> doc.lastUpdate,
          lacks |-> lacks]

\* No file, a file that does not parse, and valid JSON objects with any of
\* events, tasks, trelloCards and lastUpdate left out.
PartialFiles ==
    { NoFile, Truncated }
    \cup { File(Partial([events |-> ev, tasks |-> <<"t1">>, trelloCards |-> <<>>,
                         lastUpdate |-> updated], lacks)) :
             ev \in FewEventLists, updated \in {NULL, T0 - 1, T0 - StaleAfter - 2},
             lacks \in SUBSET {"events", "tasks", "trelloCards"} }

InitPartial ==
    /\ now = T0
    /\ phase = "constructed"
    /\ memoryCache = EmptyCache
    /\ disk \in PartialFiles
    /\ calls = [c \in CallIds |-> IdleCall]
    /\ notifiedEvents = {}
    /\ sent = [p \in ChatIds \X EventIds |-> <<>>]
    /\ scanAt = NULL
    /\ conflictCheck = NoCheck
    /\ session = NoSession
    /\ handlers = [h \in HandlerIds |-> IdleHandler]
    /\ created = <<>>
    /\ fired = [task \in Tasks |-> NULL]
    /\ digest = [task \in DigestTasks |-> IdleDigest]
    /\ delivered = [id \in ChatIds |-> <<>>]
    /\ retry = IdleRetry
    /\ limiter = NewLimiter
    /\ batch = IdleBatch

SpecPartial == InitPartial /\ [][LoadNext]_vars

\* C37: after the load, whatever the file held, the snapshot has events,
\* tasks and boardCards, and the emptiness check of the initialisation has
\* not failed.
ListsAfterLoad ==
    phase # "constructed"
    => /\ Lacks(memoryCache) = {}
       /\ phase = "running"

----------------------------------------------------------------------------
(* The buttons of one conflict message, pressed more than once *)

\* One booking, the half hour from Later on, meets the event across Later
\* and is left pending in the session; the buttons of its conflict message
\* are pressed, also while the callback of an earlier press is still
\* awaiting.  The session is the one object telegraf-session-local keeps for
\* the chat.
PressNext ==
    \/ Tick
    \/ InitScheduler
    \/ /\ conflictCheck.status = "idle"
       /\ ProcessIntent(1, [start |-> toISO(Later), end |-> toISO(Later + UnitsOf(30))])
    \/ CheckEvents(Resolved(<<Day[3]>>))
    \/ IntentChecked(1)
    \/ \E h \in HandlerIds, kind \in {"force", "accept", "cancel"} : Press(h, kind, 1)
    \/ \E h \in HandlerIds : Answered(h)
    \/ \E h \in HandlerIds, c \in CallIds : Created(h, c)
    \/ \E h \in HandlerIds : CreateFailed(h)
    \/ \E h \in HandlerIds, ok \in BOOLEAN : Edited(h, ok)
    \/ \E c \in CallIds, r \in {Rejected, Resolved(<<>>)} : InvalidateEvents(c, r, "complete")

SpecPress == Init /\ [][PressNext]_vars

\* C38: the one pending booking leads to at most one created event, however
\* often and however closely after one another its buttons are pressed; and
\* the callback of the cancel button calls createEvent for nothing.
AtMostOneEvent ==
    /\ Cardinality({ i \in DOMAIN created : created[i].status = "ok" }) <= 1
    /\ \A i \in DOMAIN created : created[i].via # "cancel"

====
